---- MODULE Spec2Model ----
(***************************************************************************)
(* A model of the scheduling engine of the study planner                   *)
(* (apps/scheduler/utils/scheduler.py).                                    *)
(*                                                                         *)
(* Time.  An instant is an integer number of seconds since                 *)
(* 2025-12-01T00:00:00Z, a Monday.  A timezone is its UTC offset in        *)
(* seconds (no daylight-saving transitions).  A Python aware datetime is   *)
(* a record [t |-> instant, off |-> the offset its tzinfo carries]:        *)
(* comparisons and differences read t only, .date() and .time() read       *)
(* t + off.  A date is a day number (0 = 2025-12-01), a time of day is a   *)
(* number of seconds since midnight.  The resolution is one second:        *)
(* time.max (23:59:59.999999) is 23:59:59.                                 *)
(*                                                                         *)
(* None is the empty sequence and a present value v is <<v>>.              *)
(***************************************************************************)
EXTENDS Integers, Sequences, FiniteSets, TLC

VARIABLES
    event_requests_raw,  \* argument: the caller's list of raw requests
    imported_events,     \* argument: the caller's list of imported events
    window_start,        \* argument, then the UTC datetime of line 512/514
    window_end,          \* argument, then the UTC datetime of line 516/518
    preferences,         \* argument: None or the preferences mapping
    randomize,           \* argument
    server_tz,           \* environment: the process's local timezone
    current_busy,        \* the working busy set of the run
    events_sorted,       \* the expanded requests in scheduling order
    scheduled_events,    \* the output list
    pc,                  \* position in schedule_events
    ev_idx,              \* index of the request of the main loop
    chunks,              \* chunk list of the current request
    remaining,           \* split_into_chunks' loop variable
    chunk_idx,           \* index of the chunk of the chunk loop
    start_time,          \* result of the base call of schedule_single_event
    end_time,
    occurrence_date,     \* date of the weekly occurrence being searched
    r_start,             \* result of the last recurrence step
    err,                 \* the exception schedule_events raised, or "none"
    busy,                \* argument of the interval-algebra calls
                         \* (merge_busy_slots, invert_slots) checked alone
    free_result,         \* what invert_slots returned in those calls
    db_events,           \* models.py: the rows of the event table, by id
    inst_events,         \* models.py: the Event objects the caller holds, by id
    provenance,          \* by id: the calendar an event was created in and the
                         \* calendar the last create, move or merge put it in
    clock,               \* timezone.now()
    query_result,        \* what the last query or predicate call returned
    session,             \* views.py: request.session
    user_calendar,       \* views.py: the events of request.user.calendars.first()
    response             \* views.py: the outcome of the last request

vars == <<event_requests_raw, imported_events, window_start, window_end,
          preferences, randomize, server_tz, current_busy, events_sorted,
          scheduled_events, pc, ev_idx, chunks, remaining, chunk_idx,
          start_time, end_time, occurrence_date, r_start, err, busy, free_result,
          db_events, inst_events, provenance, clock, query_result,
          session, user_calendar, response>>

sched_vars == <<event_requests_raw, imported_events, window_start, window_end,
                preferences, randomize, server_tz, current_busy, events_sorted,
                scheduled_events, pc, ev_idx, chunks, remaining, chunk_idx,
                start_time, end_time, occurrence_date, r_start, err, busy,
                free_result>>
store_vars == <<db_events, inst_events, provenance, clock, query_result>>
web_vars == <<session, user_calendar, response>>

\* The parts of the state a specification does not use stay as they start.
StoreIdle ==
    /\ db_events = <<>>
    /\ inst_events = <<>>
    /\ provenance = <<>>
    /\ clock = 0
    /\ query_result = <<>>

WebIdle ==
    /\ session = <<>>
    /\ user_calendar = <<>>
    /\ response = <<>>

SchedIdle ==
    /\ event_requests_raw = <<>>
    /\ imported_events = <<>>
    /\ window_start = <<>>
    /\ window_end = <<>>
    /\ preferences = <<>>
    /\ randomize = FALSE
    /\ server_tz = 0
    /\ current_busy = <<>>
    /\ events_sorted = <<>>
    /\ scheduled_events = <<>>
    /\ pc = "idle"
    /\ ev_idx = 1
    /\ chunks = <<>>
    /\ remaining = 0
    /\ chunk_idx = 0
    /\ start_time = <<>>
    /\ end_time = <<>>
    /\ occurrence_date = 0
    /\ r_start = <<>>
    /\ err = "none"
    /\ busy = <<>>
    /\ free_result = <<>>

----------------------------------------------------------------------------
(* Units and program constants *)

MINUTE == 60
HOUR == 3600
DAY == 86400
WEEK_DAYS == 7
TIME_MIN == 0
TIME_MAX == 86399
MERGE_TOLERANCE == 1
DEFAULT_HORIZON_DAYS == 31
RECUR_WEEK_SPAN == 3

None == <<>>
Some(v) == <<v>>
IsNone(o) == o = <<>>
Val(o) == o[1]

DT(t, off) == [t |-> t, off |-> off]
UTC == 0

\* datetime.date(), datetime.time(), date.weekday(), datetime.astimezone()
DateOf(dt) == (dt.t + dt.off) \div DAY
TimeOf(dt) == (dt.t + dt.off) % DAY
Weekday(d) == d % WEEK_DAYS
astimezone(dt, off) == DT(dt.t, off)

\* Python's max(a, b) and min(a, b) on datetimes: the first argument wins a tie.
PyMax(a, b) == IF b.t > a.t THEN b ELSE a
PyMin(a, b) == IF b.t < a.t THEN b ELSE a

\* A variant of to_datetime that reads the wall-clock time in the process's
\* timezone whatever timezone it is given.
to_datetime_process_tz(d, t, tzinfo_local) ==
    DT(d * DAY + (IF IsNone(t) THEN TIME_MIN ELSE Val(t)) - server_tz, UTC)

\* to_datetime(d, t, tzinfo_local): the wall-clock time t of date d in the
\* given timezone (the process's timezone when none is given), as a UTC datetime.
to_datetime(d, t, tzinfo_local) ==
    LET local_tz == IF IsNone(tzinfo_local) THEN server_tz ELSE Val(tzinfo_local)
        base == d * DAY + (IF IsNone(t) THEN TIME_MIN ELSE Val(t))
    IN  DT(base - local_tz, UTC)

\* An imported start or end is None or an ISO string: a wall-clock reading
\* with an optional UTC offset, [wall |-> seconds, off |-> None or <<offset>>].
to_dt_utc(x) ==
    IF IsNone(x) THEN None
    ELSE LET iso == Val(x)
         IN  IF IsNone(iso.off) THEN Some(DT(iso.wall - server_tz, UTC))
             ELSE Some(DT(iso.wall - Val(iso.off), UTC))

----------------------------------------------------------------------------
(* Interval algebra *)

\* sorted(busy, key=lambda x: x[0]): a stable sort on the start instant.
RECURSIVE InsertByStart(_, _)
InsertByStart(sorted, x) ==
    IF sorted = <<>> THEN <<x>>
    ELSE IF x[1].t < sorted[Len(sorted)][1].t
         THEN Append(InsertByStart(SubSeq(sorted, 1, Len(sorted) - 1), x),
                     sorted[Len(sorted)])
         ELSE Append(sorted, x)

RECURSIVE SortByStart(_)
SortByStart(s) ==
    IF s = <<>> THEN <<>>
    ELSE InsertByStart(SortByStart(SubSeq(s, 1, Len(s) - 1)), s[Len(s)])

\* A variant of the loop of merge_busy_slots that closes an interval as soon
\* as it has absorbed one other.
RECURSIVE MergeLoop_pairwise(_, _, _, _, _)
MergeLoop_pairwise(busy_sorted, i, cur_s, cur_e, merged) ==
    IF i > Len(busy_sorted) THEN Append(merged, <<cur_s, cur_e>>)
    ELSE LET s == busy_sorted[i][1]
             e == busy_sorted[i][2]
         IN  IF s.t <= cur_e.t + MERGE_TOLERANCE
             THEN IF i + 1 > Len(busy_sorted)
                  THEN Append(merged, <<cur_s, PyMax(cur_e, e)>>)
                  ELSE MergeLoop_pairwise(busy_sorted, i + 2, busy_sorted[i + 1][1],
                                          busy_sorted[i + 1][2],
                                          Append(merged, <<cur_s, PyMax(cur_e, e)>>))
             ELSE MergeLoop_pairwise(busy_sorted, i + 1, s, e,
                                     Append(merged, <<cur_s, cur_e>>))

\* A variant of the loop of merge_busy_slots without the tolerance: only
\* intervals that touch or overlap are merged.
RECURSIVE MergeLoop_no_tolerance(_, _, _, _, _)
MergeLoop_no_tolerance(busy_sorted, i, cur_s, cur_e, merged) ==
    IF i > Len(busy_sorted) THEN Append(merged, <<cur_s, cur_e>>)
    ELSE LET s == busy_sorted[i][1]
             e == busy_sorted[i][2]
         IN  IF s.t <= cur_e.t
             THEN MergeLoop_no_tolerance(busy_sorted, i + 1, cur_s, PyMax(cur_e, e),
                                         merged)
             ELSE MergeLoop_no_tolerance(busy_sorted, i + 1, s, e,
                                         Append(merged, <<cur_s, cur_e>>))

\* The loop of merge_busy_slots over busy_sorted[i..], with the interval
\* (cur_s, cur_e) being grown and the intervals already emitted.
RECURSIVE MergeLoop(_, _, _, _, _)
MergeLoop(busy_sorted, i, cur_s, cur_e, merged) ==
    IF i > Len(busy_sorted) THEN Append(merged, <<cur_s, cur_e>>)
    ELSE LET s == busy_sorted[i][1]
             e == busy_sorted[i][2]
         IN  IF s.t <= cur_e.t + MERGE_TOLERANCE
             THEN MergeLoop(busy_sorted, i + 1, cur_s, PyMax(cur_e, e), merged)
             ELSE MergeLoop(busy_sorted, i + 1, s, e, Append(merged, <<cur_s, cur_e>>))

merge_busy_slots(b) ==
    IF b = <<>> THEN <<>>
    ELSE LET busy_sorted == SortByStart(b)
         IN  MergeLoop(busy_sorted, 2, busy_sorted[1][1], busy_sorted[1][2], <<>>)

\* The loop of invert_slots over b[i..], with the cursor cur and the free
\* slots already emitted.
\* A variant of the loop of invert_slots that advances its cursor to the
\* start of a busy interval instead of its end.
RECURSIVE InvertLoop_cursor_at_start(_, _, _, _, _, _)
InvertLoop_cursor_at_start(b, i, cur, free, w_start, w_end) ==
    IF i > Len(b)
    THEN IF cur.t < w_end.t THEN Append(free, <<cur, w_end>>) ELSE free
    ELSE LET s == b[i][1]
             e == b[i][2]
         IN  IF e.t <= w_start.t \/ s.t >= w_end.t
             THEN InvertLoop_cursor_at_start(b, i + 1, cur, free, w_start, w_end)
             ELSE LET s_clamped == PyMax(s, w_start)
                      free2 == IF s_clamped.t > cur.t
                               THEN Append(free, <<cur, s_clamped>>) ELSE free
                  IN  InvertLoop_cursor_at_start(b, i + 1, PyMax(cur, s_clamped),
                                                 free2, w_start, w_end)

\* A variant of the loop of invert_slots that yields no free slot ahead of
\* a busy interval, only the time after the busy intervals.
RECURSIVE InvertLoop_after_busy_only(_, _, _, _, _, _)
InvertLoop_after_busy_only(b, i, cur, free, w_start, w_end) ==
    IF i > Len(b)
    THEN IF cur.t < w_end.t THEN Append(free, <<cur, w_end>>) ELSE free
    ELSE LET s == b[i][1]
             e == b[i][2]
         IN  IF e.t <= w_start.t \/ s.t >= w_end.t
             THEN InvertLoop_after_busy_only(b, i + 1, cur, free, w_start, w_end)
             ELSE InvertLoop_after_busy_only(b, i + 1, PyMax(cur, PyMin(e, w_end)),
                                             free, w_start, w_end)

\* A variant of the loop of invert_slots that does not skip the busy
\* intervals that lie outside the window.
RECURSIVE InvertLoop_without_skip(_, _, _, _, _, _)
InvertLoop_without_skip(b, i, cur, free, w_start, w_end) ==
    IF i > Len(b)
    THEN IF cur.t < w_end.t THEN Append(free, <<cur, w_end>>) ELSE free
    ELSE LET s_clamped == PyMax(b[i][1], w_start)
             e_clamped == PyMin(b[i][2], w_end)
             free2 == IF s_clamped.t > cur.t
                      THEN Append(free, <<cur, s_clamped>>) ELSE free
         IN  InvertLoop_without_skip(b, i + 1, PyMax(cur, e_clamped), free2,
                                     w_start, w_end)

RECURSIVE InvertLoop(_, _, _, _, _, _)
InvertLoop(b, i, cur, free, w_start, w_end) ==
    IF i > Len(b)
    THEN IF cur.t < w_end.t THEN Append(free, <<cur, w_end>>) ELSE free
    ELSE LET s == b[i][1]
             e == b[i][2]
         IN  IF e.t <= w_start.t \/ s.t >= w_end.t
             THEN InvertLoop(b, i + 1, cur, free, w_start, w_end)
             ELSE LET s_clamped == PyMax(s, w_start)
                      e_clamped == PyMin(e, w_end)
                      free2 == IF s_clamped.t > cur.t
                               THEN Append(free, <<cur, s_clamped>>) ELSE free
                  IN  InvertLoop(b, i + 1, PyMax(cur, e_clamped), free2, w_start, w_end)

invert_slots(b, w_start, w_end) == InvertLoop(b, 1, w_start, <<>>, w_start, w_end)

\* get_busy_from_imported: the imported events with a start, an end and
\* end > start, as UTC intervals, merged.
RECURSIVE ImportedLoop(_, _, _)
ImportedLoop(evs, i, acc) ==
    IF i > Len(evs) THEN acc
    ELSE LET s == to_dt_utc(evs[i].start)
             e == to_dt_utc(evs[i].end)
         IN  IF ~IsNone(s) /\ ~IsNone(e) /\ Val(e).t > Val(s).t
             THEN ImportedLoop(evs, i + 1, Append(acc, <<Val(s), Val(e)>>))
             ELSE ImportedLoop(evs, i + 1, acc)

get_busy_from_imported(evs) == merge_busy_slots(ImportedLoop(evs, 1, <<>>))

----------------------------------------------------------------------------
(* Request normalizer *)

\* expand_event_request: a copy of the raw request with its fields typed.
\* A raw date or time is None or its value; split_minutes that is absent or
\* zero becomes None.
expand_event_request(raw) ==
    [raw EXCEPT !.split_minutes =
        IF IsNone(raw.split_minutes) \/ Val(raw.split_minutes) = 0
        THEN None ELSE raw.split_minutes]

\* A variant in which expand_event_request types the fields of the caller's
\* mapping itself instead of a copy.
RawAfterExpand_in_place(raw) == expand_event_request(raw)

\* What the caller's mapping holds after expand_event_request(raw): the
\* function writes to t, a shallow copy of the mapping (line 151), whose
\* values are numbers, strings, booleans and None.
RawAfterExpand(raw) == raw

PRIORITY_ORDER(p) ==
    CASE p = "high" -> 0
      [] p = "medium" -> 1
      [] p = "low" -> 2
      [] OTHER -> 1

\* A variant of the sort key comparison that puts the larger rank first.
SortKeyLess_descending(a, b) ==
    LET ka == PRIORITY_ORDER(a.priority)
        kb == PRIORITY_ORDER(b.priority)
    IN  \/ ka > kb
        \/ ka = kb /\ (0 - a.duration_minutes) < (0 - b.duration_minutes)

\* The sort key of schedule_events: (priority rank, -duration).
SortKeyLess(a, b) ==
    LET ka == PRIORITY_ORDER(a.priority)
        kb == PRIORITY_ORDER(b.priority)
    IN  \/ ka < kb
        \/ ka = kb /\ (0 - a.duration_minutes) < (0 - b.duration_minutes)

RECURSIVE InsertByKey(_, _)
InsertByKey(sorted, x) ==
    IF sorted = <<>> THEN <<x>>
    ELSE IF SortKeyLess(x, sorted[Len(sorted)])
         THEN Append(InsertByKey(SubSeq(sorted, 1, Len(sorted) - 1), x),
                     sorted[Len(sorted)])
         ELSE Append(sorted, x)

\* sorted(events, key=...): stable.
RECURSIVE SortEvents(_)
SortEvents(s) ==
    IF s = <<>> THEN <<>>
    ELSE InsertByKey(SortEvents(SubSeq(s, 1, Len(s) - 1)), s[Len(s)])

ExpandAll(raws) == [i \in 1..Len(raws) |-> expand_event_request(raws[i])]

----------------------------------------------------------------------------
(* Candidate generator *)

\* One iteration of the date loop of generate_candidate_windows_for_event:
\* the candidate of date d, or None when the clamped span is empty.
\* A variant of the candidate of a date that spans the whole date whatever
\* time_start and time_end the request has.
CandidateOfDay_whole_day(event, d, w_start, w_end, wake_time, bed_time, local_tz) ==
    LET day_start == to_datetime(d, Some(TIME_MIN), Some(local_tz))
        day_end == to_datetime(d, Some(TIME_MAX), Some(local_tz))
        slot_s0 == PyMax(day_start, w_start)
        slot_e0 == PyMin(day_end, w_end)
        wake_dt == IF IsNone(wake_time) THEN None
                   ELSE Some(to_datetime(d, wake_time, Some(local_tz)))
        bed_raw == to_datetime(d, bed_time, Some(local_tz))
        bed_dt == IF IsNone(bed_time) THEN None
                  ELSE IF ~IsNone(wake_dt) /\ bed_raw.t <= Val(wake_dt).t
                       THEN Some(DT(bed_raw.t + DAY, bed_raw.off))
                       ELSE Some(bed_raw)
        slot_s == IF IsNone(wake_dt) THEN slot_s0 ELSE PyMax(slot_s0, Val(wake_dt))
        slot_e == IF IsNone(bed_dt) THEN slot_e0 ELSE PyMin(slot_e0, Val(bed_dt))
    IN  IF slot_s.t < slot_e.t THEN Some(<<slot_s, slot_e>>) ELSE None

CandidateOfDay(event, d, w_start, w_end, wake_time, bed_time, local_tz) ==
    LET day_start == to_datetime(d, event.time_start, Some(local_tz))
        day_end == to_datetime(d, IF IsNone(event.time_end) THEN Some(TIME_MAX)
                                  ELSE event.time_end, Some(local_tz))
        slot_s0 == PyMax(day_start, w_start)
        slot_e0 == PyMin(day_end, w_end)
        wake_dt == IF IsNone(wake_time) THEN None
                   ELSE Some(to_datetime(d, wake_time, Some(local_tz)))
        bed_raw == to_datetime(d, bed_time, Some(local_tz))
        bed_dt == IF IsNone(bed_time) THEN None
                  ELSE IF ~IsNone(wake_dt) /\ bed_raw.t <= Val(wake_dt).t
                       THEN Some(DT(bed_raw.t + DAY, bed_raw.off))
                       ELSE Some(bed_raw)
        slot_s == IF IsNone(wake_dt) THEN slot_s0 ELSE PyMax(slot_s0, Val(wake_dt))
        slot_e == IF IsNone(bed_dt) THEN slot_e0 ELSE PyMin(slot_e0, Val(bed_dt))
    IN  IF slot_s.t < slot_e.t THEN Some(<<slot_s, slot_e>>) ELSE None

RECURSIVE CandidateDays(_, _, _, _, _, _, _, _)
CandidateDays(event, d, end_date, w_start, w_end, wake_time, bed_time, local_tz) ==
    IF d > end_date THEN <<>>
    ELSE CandidateOfDay(event, d, w_start, w_end, wake_time, bed_time, local_tz)
         \o CandidateDays(event, d + 1, end_date, w_start, w_end,
                          wake_time, bed_time, local_tz)

generate_candidate_windows_for_event(event, w_start, w_end, wake_time, bed_time, local_tz) ==
    LET start_date == IF IsNone(event.date_start) THEN DateOf(w_start)
                      ELSE Val(event.date_start)
        end_date == IF IsNone(event.date_end) THEN DateOf(w_end)
                    ELSE Val(event.date_end)
    IN  CandidateDays(event, start_date, end_date, w_start, w_end,
                      wake_time, bed_time, local_tz)

----------------------------------------------------------------------------
(* Preferences *)

\* The six bands of convert_time_of_day_rankings, in source order.
TIME_WINDOWS ==
    << [key |-> "early_morning_rank", t_start |-> 5 * HOUR,  t_end |-> 9 * HOUR],
       [key |-> "late_morning_rank",  t_start |-> 9 * HOUR,  t_end |-> 12 * HOUR],
       [key |-> "afternoon_rank",     t_start |-> 12 * HOUR, t_end |-> 16 * HOUR],
       [key |-> "evening_rank",       t_start |-> 16 * HOUR, t_end |-> 20 * HOUR],
       [key |-> "night_rank",         t_start |-> 20 * HOUR, t_end |-> 0],
       [key |-> "late_night_rank",    t_start |-> 0,         t_end |-> 5 * HOUR] >>

RECURSIVE InsertByRank(_, _)
InsertByRank(sorted, x) ==
    IF sorted = <<>> THEN <<x>>
    ELSE IF x.rank < sorted[Len(sorted)].rank
         THEN Append(InsertByRank(SubSeq(sorted, 1, Len(sorted) - 1), x),
                     sorted[Len(sorted)])
         ELSE Append(sorted, x)

RECURSIVE SortByRank(_)
SortByRank(s) ==
    IF s = <<>> THEN <<>>
    ELSE InsertByRank(SortByRank(SubSeq(s, 1, Len(s) - 1)), s[Len(s)])

\* convert_time_of_day_rankings: every band with its rank (0 when the
\* preferences carry no rank for it), sorted by rank, stable.
\* prefs.ranks maps each band key to None or <<rank>>.
convert_time_of_day_rankings(prefs) ==
    SortByRank([i \in 1..Len(TIME_WINDOWS) |->
        [rank |-> IF IsNone(prefs.ranks[TIME_WINDOWS[i].key]) THEN 0
                  ELSE Val(prefs.ranks[TIME_WINDOWS[i].key]),
         t_start |-> TIME_WINDOWS[i].t_start,
         t_end |-> TIME_WINDOWS[i].t_end]])

WEEKDAY_MAP(name) ==
    CASE name \in {"mon", "monday"} -> Some(0)
      [] name \in {"tue", "tuesday"} -> Some(1)
      [] name \in {"wed", "wednesday"} -> Some(2)
      [] name \in {"thu", "thursday"} -> Some(3)
      [] name \in {"fri", "friday"} -> Some(4)
      [] name \in {"sat", "saturday"} -> Some(5)
      [] name \in {"sun", "sunday"} -> Some(6)
      [] OTHER -> None

\* convert_blackout_days: the weekday numbers of the names the map knows.
\* prefs.blackout_days is None (key absent) or <<list of names>>.
RECURSIVE BlackoutLoop(_, _)
BlackoutLoop(days, i) ==
    IF i > Len(days) THEN <<>>
    ELSE WEEKDAY_MAP(days[i]) \o BlackoutLoop(days, i + 1)

convert_blackout_days(prefs) ==
    IF IsNone(prefs.blackout_days) THEN <<>>
    ELSE BlackoutLoop(Val(prefs.blackout_days), 1)

\* _get_local_tz: the preferences' timezone, else the process's.
get_local_tz(prefs_opt) ==
    IF ~IsNone(prefs_opt) /\ ~IsNone(Val(prefs_opt).timezone)
    THEN Val(Val(prefs_opt).timezone)
    ELSE server_tz

----------------------------------------------------------------------------
(* Preference ranker *)

Plus(dt, seconds) == DT(dt.t + seconds, dt.off)

\* The inner loop of score_and_sort_candidates: the sum over the bands
\* ranks[idx..] of weight * overlap.  The source counts the overlap in
\* minutes as a float; the model counts it in seconds, which orders the
\* candidates the same way.
RECURSIVE ScoreLoop(_, _, _, _)
ScoreLoop(cand, ranks, idx, local_tz) ==
    IF idx > Len(ranks) THEN 0
    ELSE LET weight == Len(ranks) - (idx - 1)
             day == DateOf(astimezone(cand[1], local_tz))
             win_s == to_datetime(day, Some(ranks[idx].t_start), Some(local_tz))
             win_e0 == to_datetime(day, Some(ranks[idx].t_end), Some(local_tz))
             win_e == IF win_e0.t <= win_s.t THEN Plus(win_e0, DAY) ELSE win_e0
             ov_s == PyMax(cand[1], win_s)
             ov_e == PyMin(cand[2], win_e)
             overlap == IF ov_e.t - ov_s.t > 0 THEN ov_e.t - ov_s.t ELSE 0
         IN  weight * overlap + ScoreLoop(cand, ranks, idx + 1, local_tz)

Score(cand, ranks, local_tz) == ScoreLoop(cand, ranks, 1, local_tz)

\* A variant of the sort that orders the candidates by start alone.
RECURSIVE InsertByScore_by_start(_, _, _, _)
InsertByScore_by_start(sorted, x, ranks, local_tz) ==
    IF sorted = <<>> THEN <<x>>
    ELSE LET y == sorted[Len(sorted)]
         IN  IF x[1].t < y[1].t
             THEN Append(InsertByScore_by_start(SubSeq(sorted, 1, Len(sorted) - 1), x,
                                                ranks, local_tz), y)
             ELSE Append(sorted, x)

\* scored.sort(key=lambda x: (-x[0], x[1])): stable.
RECURSIVE InsertByScore(_, _, _, _)
InsertByScore(sorted, x, ranks, local_tz) ==
    IF sorted = <<>> THEN <<x>>
    ELSE LET y == sorted[Len(sorted)]
             kx == 0 - Score(x, ranks, local_tz)
             ky == 0 - Score(y, ranks, local_tz)
         IN  IF kx < ky \/ (kx = ky /\ x[1].t < y[1].t)
             THEN Append(InsertByScore(SubSeq(sorted, 1, Len(sorted) - 1), x,
                                       ranks, local_tz), y)
             ELSE Append(sorted, x)

RECURSIVE score_and_sort_candidates(_, _, _)
score_and_sort_candidates(candidates, ranks, local_tz) ==
    IF candidates = <<>> THEN <<>>
    ELSE InsertByScore(
            score_and_sort_candidates(SubSeq(candidates, 1, Len(candidates) - 1),
                                      ranks, local_tz),
            candidates[Len(candidates)], ranks, local_tz)

\* The band loop of find_preferred_subwindow on one local day.
\* A variant of the band loop that, once a band has room, returns the
\* leading sub-interval of the candidate instead of that of the intersection.
RECURSIVE BandLoop_candidate_start(_, _, _, _, _, _, _, _, _)
BandLoop_candidate_start(cand_s, cand_e, needed, ranks, idx, day, day_wake, day_bed, local_tz) ==
    IF idx > Len(ranks) THEN None
    ELSE LET win_s == to_datetime(day, Some(ranks[idx].t_start), Some(local_tz))
             win_e0 == to_datetime(day, Some(ranks[idx].t_end), Some(local_tz))
             win_e == IF ranks[idx].t_end <= ranks[idx].t_start
                      THEN Plus(win_e0, DAY) ELSE win_e0
             ov_s0 == PyMax(cand_s, win_s)
             ov_e0 == PyMin(cand_e, win_e)
             ov_s == IF IsNone(day_wake) THEN ov_s0 ELSE PyMax(ov_s0, Val(day_wake))
             ov_e == IF IsNone(day_bed) THEN ov_e0 ELSE PyMin(ov_e0, Val(day_bed))
         IN  IF ov_e.t - ov_s.t >= needed
             THEN Some(<<cand_s, Plus(cand_s, needed)>>)
             ELSE BandLoop_candidate_start(cand_s, cand_e, needed, ranks, idx + 1, day,
                                           day_wake, day_bed, local_tz)

RECURSIVE BandLoop(_, _, _, _, _, _, _, _, _)
BandLoop(cand_s, cand_e, needed, ranks, idx, day, day_wake, day_bed, local_tz) ==
    IF idx > Len(ranks) THEN None
    ELSE LET win_s == to_datetime(day, Some(ranks[idx].t_start), Some(local_tz))
             win_e0 == to_datetime(day, Some(ranks[idx].t_end), Some(local_tz))
             win_e == IF ranks[idx].t_end <= ranks[idx].t_start
                      THEN Plus(win_e0, DAY) ELSE win_e0
             ov_s0 == PyMax(cand_s, win_s)
             ov_e0 == PyMin(cand_e, win_e)
             ov_s == IF IsNone(day_wake) THEN ov_s0 ELSE PyMax(ov_s0, Val(day_wake))
             ov_e == IF IsNone(day_bed) THEN ov_e0 ELSE PyMin(ov_e0, Val(day_bed))
         IN  IF ov_e.t - ov_s.t >= needed
             THEN Some(<<ov_s, Plus(ov_s, needed)>>)
             ELSE BandLoop(cand_s, cand_e, needed, ranks, idx + 1, day,
                           day_wake, day_bed, local_tz)

\* The day loop of find_preferred_subwindow.
RECURSIVE DayLoop(_, _, _, _, _, _, _, _, _)
DayLoop(cand_s, cand_e, needed, ranks, day_offset, num_days, wake_time, bed_time, local_tz) ==
    IF day_offset > num_days THEN None
    ELSE LET day == DateOf(astimezone(cand_s, local_tz)) + day_offset
             day_wake == IF IsNone(wake_time) THEN None
                         ELSE Some(to_datetime(day, wake_time, Some(local_tz)))
             bed_raw == to_datetime(day, bed_time, Some(local_tz))
             day_bed == IF IsNone(bed_time) THEN None
                        ELSE IF ~IsNone(day_wake) /\ bed_raw.t <= Val(day_wake).t
                             THEN Some(Plus(bed_raw, DAY))
                             ELSE Some(bed_raw)
             sub == BandLoop(cand_s, cand_e, needed, ranks, 1, day,
                             day_wake, day_bed, local_tz)
         IN  IF ~IsNone(sub) THEN sub
             ELSE DayLoop(cand_s, cand_e, needed, ranks, day_offset + 1, num_days,
                          wake_time, bed_time, local_tz)

\* find_preferred_subwindow: None, or <<(start, end)>> of the first
\* needed-long stretch of the first band, by day then by rank, that has room.
find_preferred_subwindow(cand_s, cand_e, needed, ranks, wake_time, bed_time, local_tz) ==
    IF ranks = <<>> THEN None
    ELSE LET diff == DateOf(cand_e) - DateOf(cand_s)
             num_days == IF diff > 0 THEN diff ELSE 0
         IN  DayLoop(cand_s, cand_e, needed, ranks, 0, num_days,
                     wake_time, bed_time, local_tz)

----------------------------------------------------------------------------
(* Placement engine *)

\* `if preferences`: the argument is a mapping with at least one key.  A field
\* of the record that is None is a key the mapping does not have.
Truthy(prefs_opt) ==
    /\ ~IsNone(prefs_opt)
    /\ \/ ~IsNone(Val(prefs_opt).wake_time)
       \/ ~IsNone(Val(prefs_opt).bed_time)
       \/ ~IsNone(Val(prefs_opt).blackout_days)
       \/ ~IsNone(Val(prefs_opt).timezone)
       \/ \E i \in 1..Len(TIME_WINDOWS) :
             ~IsNone(Val(prefs_opt).ranks[TIME_WINDOWS[i].key])

\* The preferences of a run as schedule_events derives them (lines 538-548
\* and 558-565): chunk_preferences.
ChunkPreferences ==
    [blackout_days |-> IF ~Truthy(preferences) THEN <<>>
                       ELSE convert_blackout_days(Val(preferences)),
     time_of_day_ranks |-> IF ~Truthy(preferences) THEN <<>>
                           ELSE convert_time_of_day_rankings(Val(preferences)),
     wake_time |-> IF ~Truthy(preferences) THEN None ELSE Val(preferences).wake_time,
     bed_time |-> IF ~Truthy(preferences) THEN None ELSE Val(preferences).bed_time,
     local_tz |-> get_local_tz(preferences),
     randomize |-> randomize]

InSeq(x, s) == \E i \in 1..Len(s) : s[i] = x

RECURSIVE KeepAllowed(_, _, _)
KeepAllowed(cands, i, blackout_days) ==
    IF i > Len(cands) THEN <<>>
    ELSE (IF blackout_days = <<>>
             \/ ~InSeq(Weekday(DateOf(cands[i][1])), blackout_days)
          THEN <<cands[i]>> ELSE <<>>)
         \o KeepAllowed(cands, i + 1, blackout_days)

\* The loop of _form_candidates over the free slots.
RECURSIVE FreeSlotLoop(_, _, _, _)
FreeSlotLoop(free_slots, i, event, prefs) ==
    IF i > Len(free_slots) THEN <<>>
    ELSE KeepAllowed(
            generate_candidate_windows_for_event(event, free_slots[i][1],
                free_slots[i][2], prefs.wake_time, prefs.bed_time, prefs.local_tz),
            1, prefs.blackout_days)
         \o FreeSlotLoop(free_slots, i + 1, event, prefs)

form_candidates(busy_slots, w_start, w_end, event, prefs) ==
    LET local_tz == prefs.local_tz
        ws == astimezone(w_start, local_tz)
        we == astimezone(w_end, local_tz)
        busy_local == [i \in 1..Len(busy_slots) |->
                          <<astimezone(busy_slots[i][1], local_tz),
                            astimezone(busy_slots[i][2], local_tz)>>]
        free_slots == invert_slots(merge_busy_slots(busy_local), ws, we)
        candidates == FreeSlotLoop(free_slots, 1, event, prefs)
    IN  IF prefs.time_of_day_ranks # <<>>
        THEN score_and_sort_candidates(candidates, prefs.time_of_day_ranks, local_tz)
        ELSE SortByStart(candidates)

\* The candidate loop of schedule_single_event over candidates[i..]:
\* None, or <<(start_dt, end_dt)>> of the placement found.
\* A variant of the candidate loop that takes the whole candidate when no
\* preferred subwindow is found.
RECURSIVE CandidateLoop_whole_candidate(_, _, _, _)
CandidateLoop_whole_candidate(candidates, i, needed, prefs) ==
    IF i > Len(candidates) THEN None
    ELSE LET cand_s == candidates[i][1]
             cand_e == candidates[i][2]
             sub == IF prefs.time_of_day_ranks # <<>>
                    THEN find_preferred_subwindow(cand_s, cand_e, needed,
                             prefs.time_of_day_ranks, prefs.wake_time,
                             prefs.bed_time, prefs.local_tz)
                    ELSE None
         IN  IF cand_e.t - cand_s.t < needed
             THEN CandidateLoop_whole_candidate(candidates, i + 1, needed, prefs)
             ELSE IF ~IsNone(sub) THEN sub
             ELSE Some(<<cand_s, cand_e>>)

\* A variant of the candidate loop that takes the trailing sub-interval of
\* the candidate instead of the leading one.
RECURSIVE CandidateLoop_trailing(_, _, _, _)
CandidateLoop_trailing(candidates, i, needed, prefs) ==
    IF i > Len(candidates) THEN None
    ELSE LET cand_s == candidates[i][1]
             cand_e == candidates[i][2]
             sub == IF prefs.time_of_day_ranks # <<>>
                    THEN find_preferred_subwindow(cand_s, cand_e, needed,
                             prefs.time_of_day_ranks, prefs.wake_time,
                             prefs.bed_time, prefs.local_tz)
                    ELSE None
         IN  IF cand_e.t - cand_s.t < needed
             THEN CandidateLoop_trailing(candidates, i + 1, needed, prefs)
             ELSE IF ~IsNone(sub) THEN sub
             ELSE Some(<<Plus(cand_e, 0 - needed), cand_e>>)

RECURSIVE CandidateLoop(_, _, _, _)
CandidateLoop(candidates, i, needed, prefs) ==
    IF i > Len(candidates) THEN None
    ELSE LET cand_s == candidates[i][1]
             cand_e == candidates[i][2]
             sub == IF prefs.time_of_day_ranks # <<>>
                    THEN find_preferred_subwindow(cand_s, cand_e, needed,
                             prefs.time_of_day_ranks, prefs.wake_time,
                             prefs.bed_time, prefs.local_tz)
                    ELSE None
         IN  IF cand_e.t - cand_s.t < needed
             THEN CandidateLoop(candidates, i + 1, needed, prefs)
             ELSE IF ~IsNone(sub) THEN sub
             ELSE IF cand_s.t + needed > cand_e.t
                  THEN CandidateLoop(candidates, i + 1, needed, prefs)
                  ELSE Some(<<cand_s, Plus(cand_s, needed)>>)

PlacedRecord(event, start_dt, end_dt) ==
    [name |-> event.title, start |-> Some(start_dt), end |-> Some(end_dt),
     priority |-> event.priority, unscheduled |-> FALSE,
     requested_minutes |-> None]

\* A variant of the placeholder that carries the minutes of the whole
\* request instead of the chunk's.
UnscheduledRecord_whole_request(event, chunk_minutes) ==
    [name |-> event.title, start |-> None, end |-> None,
     priority |-> event.priority, unscheduled |-> TRUE,
     requested_minutes |-> Some(event.duration_minutes)]

UnscheduledRecord(event, chunk_minutes) ==
    [name |-> event.title, start |-> None, end |-> None,
     priority |-> event.priority, unscheduled |-> TRUE,
     requested_minutes |-> Some(chunk_minutes)]

\* Variants of schedule_single_event: one that does not add the placed
\* interval to the busy set, one that adds it without merging.
schedule_single_event_without_commit(event, chunk_minutes, cur_busy, sched, candidates, prefs) ==
    LET found == CandidateLoop(candidates, 1, chunk_minutes * MINUTE, prefs)
    IN  IF ~IsNone(found)
        THEN [scheduled_events |-> Append(sched,
                  PlacedRecord(event, Val(found)[1], Val(found)[2])),
              current_busy |-> cur_busy,
              start |-> Some(Val(found)[1]), end |-> Some(Val(found)[2])]
        ELSE [scheduled_events |-> Append(sched, UnscheduledRecord(event, chunk_minutes)),
              current_busy |-> cur_busy,
              start |-> None, end |-> None]

schedule_single_event_without_merge(event, chunk_minutes, cur_busy, sched, candidates, prefs) ==
    LET found == CandidateLoop(candidates, 1, chunk_minutes * MINUTE, prefs)
    IN  IF ~IsNone(found)
        THEN [scheduled_events |-> Append(sched,
                  PlacedRecord(event, Val(found)[1], Val(found)[2])),
              current_busy |-> Append(cur_busy, Val(found)),
              start |-> Some(Val(found)[1]), end |-> Some(Val(found)[2])]
        ELSE [scheduled_events |-> Append(sched, UnscheduledRecord(event, chunk_minutes)),
              current_busy |-> cur_busy,
              start |-> None, end |-> None]

\* schedule_single_event on candidates already in the order they are walked:
\* the new output list, the new busy set and the returned pair.
schedule_single_event(event, chunk_minutes, cur_busy, sched, candidates, prefs) ==
    LET found == CandidateLoop(candidates, 1, chunk_minutes * MINUTE, prefs)
    IN  IF ~IsNone(found)
        THEN [scheduled_events |-> Append(sched,
                  PlacedRecord(event, Val(found)[1], Val(found)[2])),
              current_busy |-> merge_busy_slots(Append(cur_busy, Val(found))),
              start |-> Some(Val(found)[1]), end |-> Some(Val(found)[2])]
        ELSE [scheduled_events |-> Append(sched, UnscheduledRecord(event, chunk_minutes)),
              current_busy |-> cur_busy,
              start |-> None, end |-> None]

\* random.shuffle(candidates): every order of the list.  A list longer than
\* MaxShuffle is represented by the orders that bring each of its elements
\* to the front, the others keeping their order.
MaxShuffle == 3

RemoveAt(s, i) == SubSeq(s, 1, i - 1) \o SubSeq(s, i + 1, Len(s))

RECURSIVE AllOrders(_)
AllOrders(s) ==
    IF s = <<>> THEN {<<>>}
    ELSE UNION {{<<s[i]>> \o rest : rest \in AllOrders(RemoveAt(s, i))}
                : i \in 1..Len(s)}

Shuffles(candidates, prefs) ==
    IF prefs.randomize /\ candidates # <<>>
    THEN IF Len(candidates) <= MaxShuffle THEN AllOrders(candidates)
         ELSE {<<candidates[i]>> \o RemoveAt(candidates, i) : i \in 1..Len(candidates)}
    ELSE {candidates}

----------------------------------------------------------------------------
(* schedule_events, one action per step of its loops *)

CurEvent == events_sorted[ev_idx]
CurChunk == chunks[chunk_idx]

\* The instants datetime.now(UTC) may return when no window start is given.
Nows == {8 * HOUR + 30 * MINUTE}

\* Lines 507-548: the window, the initial busy set, the sorted requests.
Setup ==
    /\ pc = "call"
    /\ \E now \in Nows :
          LET ws == IF IsNone(window_start) THEN DT(now, UTC)
                    ELSE Val(to_dt_utc(window_start))
              we == IF IsNone(window_end) THEN Plus(ws, DEFAULT_HORIZON_DAYS * DAY)
                    ELSE Val(to_dt_utc(window_end))
          IN  /\ window_start' = Some(ws)
              /\ window_end' = Some(we)
    /\ current_busy' = merge_busy_slots(get_busy_from_imported(imported_events))
    /\ events_sorted' = SortEvents(ExpandAll(event_requests_raw))
    /\ event_requests_raw' = [i \in 1..Len(event_requests_raw) |->
                                 RawAfterExpand(event_requests_raw[i])]
    /\ scheduled_events' = <<>>
    /\ ev_idx' = 1
    /\ pc' = "for_event"
    /\ UNCHANGED <<imported_events, preferences, randomize,
                   server_tz, chunks, remaining, chunk_idx, start_time, end_time,
                   occurrence_date, r_start, err, busy, free_result,
                   store_vars, web_vars>>

\* Line 551 with no request left, lines 674-676.
Return ==
    /\ pc = "for_event"
    /\ ev_idx > Len(events_sorted)
    /\ pc' = "done"
    /\ UNCHANGED <<event_requests_raw, imported_events, window_start, window_end,
                   preferences, randomize, server_tz, current_busy, events_sorted,
                   scheduled_events, ev_idx, chunks, remaining, chunk_idx,
                   start_time, end_time, occurrence_date, r_start, err, busy, free_result,
                   store_vars, web_vars>>

\* Line 554 and split_into_chunks up to its loop (lines 226-234).
SplitIntoChunks ==
    /\ pc = "for_event"
    /\ ev_idx <= Len(events_sorted)
    /\ IF ~CurEvent.split
       THEN /\ chunks' = <<CurEvent.duration_minutes>>
            /\ chunk_idx' = 1
            /\ pc' = "for_chunk"
            /\ UNCHANGED <<remaining, err>>
       ELSE IF IsNone(CurEvent.split_minutes) \/ Val(CurEvent.split_minutes) = 0
       THEN /\ err' = "ValueError"
            /\ pc' = "raised"
            /\ UNCHANGED <<chunks, chunk_idx, remaining>>
       ELSE /\ chunks' = <<>>
            /\ remaining' = CurEvent.duration_minutes
            /\ pc' = "split_loop"
            /\ UNCHANGED <<chunk_idx, err>>
    /\ UNCHANGED <<event_requests_raw, imported_events, window_start, window_end,
                   preferences, randomize, server_tz, current_busy, events_sorted,
                   scheduled_events, ev_idx, start_time, end_time,
                   occurrence_date, r_start, busy, free_result,
                   store_vars, web_vars>>

\* The cap on the chunk list of a split loop that does not end.
MaxChunks == 6

\* A variant of the loop of split_into_chunks that emits split_minutes for
\* every chunk, the last one too.
SplitLoop_without_remainder ==
    /\ pc = "split_loop"
    /\ remaining > 0
    /\ Len(chunks) < MaxChunks
    /\ LET split_minutes == Val(CurEvent.split_minutes)
       IN  /\ chunks' = Append(chunks, split_minutes)
           /\ remaining' = remaining - split_minutes
    /\ UNCHANGED <<event_requests_raw, imported_events, window_start, window_end,
                   preferences, randomize, server_tz, current_busy, events_sorted,
                   scheduled_events, pc, ev_idx, chunk_idx, start_time, end_time,
                   occurrence_date, r_start, err, busy, free_result,
                   store_vars, web_vars>>

\* One iteration of the loop of split_into_chunks (lines 235-238).
SplitLoop ==
    /\ pc = "split_loop"
    /\ remaining > 0
    /\ Len(chunks) < MaxChunks
    /\ LET split_minutes == Val(CurEvent.split_minutes)
           chunk == IF remaining < split_minutes THEN remaining ELSE split_minutes
       IN  /\ chunks' = Append(chunks, chunk)
           /\ remaining' = remaining - chunk
    /\ UNCHANGED <<event_requests_raw, imported_events, window_start, window_end,
                   preferences, randomize, server_tz, current_busy, events_sorted,
                   scheduled_events, pc, ev_idx, chunk_idx, start_time, end_time,
                   occurrence_date, r_start, err, busy, free_result,
                   store_vars, web_vars>>

\* The loop of split_into_chunks ends and the list is returned (line 240).
SplitReturn ==
    /\ pc = "split_loop"
    /\ remaining <= 0
    /\ chunk_idx' = 1
    /\ pc' = "for_chunk"
    /\ UNCHANGED <<event_requests_raw, imported_events, window_start, window_end,
                   preferences, randomize, server_tz, current_busy, events_sorted,
                   scheduled_events, ev_idx, chunks, remaining, start_time, end_time,
                   occurrence_date, r_start, err, busy, free_result,
                   store_vars, web_vars>>

\* Line 556 with no chunk left: the next request.
NextEvent ==
    /\ pc = "for_chunk"
    /\ chunk_idx > Len(chunks)
    /\ ev_idx' = ev_idx + 1
    /\ pc' = "for_event"
    /\ UNCHANGED <<event_requests_raw, imported_events, window_start, window_end,
                   preferences, randomize, server_tz, current_busy, events_sorted,
                   scheduled_events, chunks, remaining, chunk_idx, start_time,
                   end_time, occurrence_date, r_start, err, busy, free_result,
                   store_vars, web_vars>>

\* Lines 556-571: the candidates of a base chunk and its placement.
PlaceChunk ==
    /\ pc = "for_chunk"
    /\ chunk_idx <= Len(chunks)
    /\ LET candidates == form_candidates(current_busy, Val(window_start),
                             Val(window_end), CurEvent, ChunkPreferences)
       IN  \E order \in Shuffles(candidates, ChunkPreferences) :
              LET res == schedule_single_event(CurEvent, CurChunk, current_busy,
                             scheduled_events, order, ChunkPreferences)
              IN  /\ scheduled_events' = res.scheduled_events
                  /\ current_busy' = res.current_busy
                  /\ start_time' = res.start
                  /\ end_time' = res.end
    /\ pc' = "placed"
    /\ UNCHANGED <<event_requests_raw, imported_events, window_start, window_end,
                   preferences, randomize, server_tz, events_sorted, ev_idx,
                   chunks, remaining, chunk_idx, occurrence_date, r_start, err, busy, free_result,
                   store_vars, web_vars>>

IsRecurring(event) == event.recurring /\ ~IsNone(event.recurring_until)

\* Line 574 false: the next chunk.
NextChunk ==
    /\ pc = "placed"
    /\ ~IsRecurring(CurEvent)
    /\ chunk_idx' = chunk_idx + 1
    /\ pc' = "for_chunk"
    /\ UNCHANGED <<event_requests_raw, imported_events, window_start, window_end,
                   preferences, randomize, server_tz, current_busy, events_sorted,
                   scheduled_events, ev_idx, chunks, remaining, start_time,
                   end_time, occurrence_date, r_start, err, busy, free_result,
                   store_vars, web_vars>>

\* Lines 574-579: next_start_dt.date() of a base chunk that was placed.
RecurBegin ==
    /\ pc = "placed"
    /\ IsRecurring(CurEvent)
    /\ ~IsNone(start_time)
    /\ occurrence_date' = DateOf(Val(start_time)) + WEEK_DAYS
    /\ pc' = "recur_loop"
    /\ UNCHANGED <<event_requests_raw, imported_events, window_start, window_end,
                   preferences, randomize, server_tz, current_busy, events_sorted,
                   scheduled_events, ev_idx, chunks, remaining, chunk_idx,
                   start_time, end_time, r_start, err, busy, free_result,
                   store_vars, web_vars>>

\* Lines 574-579: next_start_dt is None, and None has no date().
RecurRaise ==
    /\ pc = "placed"
    /\ IsRecurring(CurEvent)
    /\ IsNone(start_time)
    /\ err' = "AttributeError"
    /\ pc' = "raised"
    /\ UNCHANGED <<event_requests_raw, imported_events, window_start, window_end,
                   preferences, randomize, server_tz, current_busy, events_sorted,
                   scheduled_events, ev_idx, chunks, remaining, chunk_idx,
                   start_time, end_time, occurrence_date, r_start, busy, free_result,
                   store_vars, web_vars>>

\* Line 580 false: the recurrence loop ends, the next chunk.
RecurExit ==
    /\ pc = "recur_loop"
    /\ occurrence_date > Val(CurEvent.recurring_until)
    /\ chunk_idx' = chunk_idx + 1
    /\ pc' = "for_chunk"
    /\ UNCHANGED <<event_requests_raw, imported_events, window_start, window_end,
                   preferences, randomize, server_tz, current_busy, events_sorted,
                   scheduled_events, ev_idx, chunks, remaining, start_time,
                   end_time, occurrence_date, r_start, err, busy, free_result,
                   store_vars, web_vars>>

\* A variant of the recurrence step that goes on to the next step whether
\* or not it placed the occurrence.
RecurSearch_tries_every_step(event_for, w_start, w_end, pc_failed) ==
    /\ LET candidates == form_candidates(current_busy, w_start, w_end,
                                         event_for, ChunkPreferences)
       IN  \E order \in Shuffles(candidates, ChunkPreferences) :
              LET res == schedule_single_event(event_for, CurChunk, current_busy,
                             scheduled_events, order, ChunkPreferences)
              IN  /\ scheduled_events' = res.scheduled_events
                  /\ current_busy' = res.current_busy
                  /\ r_start' = res.start
                  /\ IF pc_failed # "recur_loop"
                     THEN pc' = pc_failed /\ UNCHANGED occurrence_date
                     ELSE /\ pc' = "recur_loop"
                          /\ occurrence_date' = occurrence_date + WEEK_DAYS
    /\ UNCHANGED <<event_requests_raw, imported_events, window_start, window_end,
                   preferences, randomize, server_tz, events_sorted, ev_idx,
                   chunks, remaining, chunk_idx, start_time, end_time, err, busy, free_result,
                   store_vars, web_vars>>

\* The search of one recurrence step: candidates within [w_start, w_end) for
\* the event as the step constrains it, then schedule_single_event.  A step
\* that succeeds moves to the next weekly date (line 672).
RecurSearch(event_for, w_start, w_end, pc_failed) ==
    /\ LET candidates == form_candidates(current_busy, w_start, w_end,
                                         event_for, ChunkPreferences)
       IN  \E order \in Shuffles(candidates, ChunkPreferences) :
              LET res == schedule_single_event(event_for, CurChunk, current_busy,
                             scheduled_events, order, ChunkPreferences)
              IN  /\ scheduled_events' = res.scheduled_events
                  /\ current_busy' = res.current_busy
                  /\ r_start' = res.start
                  /\ IF IsNone(res.start) /\ pc_failed # "recur_loop"
                     THEN pc' = pc_failed /\ UNCHANGED occurrence_date
                     ELSE /\ pc' = "recur_loop"
                          /\ occurrence_date' = occurrence_date + WEEK_DAYS
    /\ UNCHANGED <<event_requests_raw, imported_events, window_start, window_end,
                   preferences, randomize, server_tz, events_sorted, ev_idx,
                   chunks, remaining, chunk_idx, start_time, end_time, err, busy, free_result,
                   store_vars, web_vars>>

\* Lines 580-608: the same clock time on the occurrence date.
RecurStep1 ==
    /\ pc = "recur_loop"
    /\ occurrence_date <= Val(CurEvent.recurring_until)
    /\ LET time_start == TimeOf(Val(start_time))
           time_end == TimeOf(Val(end_time))
           cand_start == to_datetime(occurrence_date, Some(time_start),
                                     Some(ChunkPreferences.local_tz))
           cand_end == Plus(cand_start, CurChunk * MINUTE)
           event_for_day == [CurEvent EXCEPT !.date_start = Some(occurrence_date),
                                             !.date_end = Some(occurrence_date),
                                             !.time_start = Some(time_start),
                                             !.time_end = Some(time_end)]
       IN  RecurSearch(event_for_day, cand_start, cand_end, "recur_step2")

\* Lines 610-634: any time on the occurrence date.
RecurStep2 ==
    /\ pc = "recur_step2"
    /\ LET day_start == to_datetime(occurrence_date, Some(TIME_MIN), None)
           day_end == to_datetime(occurrence_date, Some(TIME_MAX), None)
           event_for_day == [CurEvent EXCEPT !.date_start = Some(occurrence_date),
                                             !.date_end = Some(occurrence_date)]
       IN  RecurSearch(event_for_day, day_start, day_end, "recur_step3")

\* Lines 636-672: any time within 3 days of the occurrence date.
RecurStep3 ==
    /\ pc = "recur_step3"
    /\ LET week_start_date == occurrence_date - RECUR_WEEK_SPAN
           week_end_date == occurrence_date + RECUR_WEEK_SPAN
           week_start == to_datetime(week_start_date, Some(TIME_MIN), None)
           week_end == to_datetime(week_end_date, Some(TIME_MAX), None)
           event_for_week == [CurEvent EXCEPT !.date_start = Some(week_start_date),
                                              !.date_end = Some(week_end_date)]
       IN  RecurSearch(event_for_week, week_start, week_end, "recur_loop")

Next ==
    \/ Setup
    \/ Return
    \/ SplitIntoChunks
    \/ SplitLoop
    \/ SplitReturn
    \/ NextEvent
    \/ PlaceChunk
    \/ NextChunk
    \/ RecurBegin
    \/ RecurRaise
    \/ RecurExit
    \/ RecurStep1
    \/ RecurStep2
    \/ RecurStep3

----------------------------------------------------------------------------
(* The calls checked: arguments and environment of a run *)

At(d, h, m) == d * DAY + h * HOUR + m * MINUTE
Iso(wall, off) == Some([wall |-> wall, off |-> off])
TOKYO == 9 * HOUR
CHICAGO == 0 - 6 * HOUR

Request(duration, priority, ds, de, ts, te, split, sm, recurring, until) ==
    [title |-> 0, duration_minutes |-> duration, priority |-> priority,
     date_start |-> ds, date_end |-> de, time_start |-> ts, time_end |-> te,
     split |-> split, split_minutes |-> sm,
     recurring |-> recurring, recurring_until |-> until]

Simple(duration, priority) ==
    Request(duration, priority, None, None, None, None, FALSE, None, FALSE, None)
Split(duration, priority, sm) ==
    Request(duration, priority, None, None, None, None, TRUE, sm, FALSE, None)
\* Scenario E: one day, 08:00-09:00, 90 minutes.
Cramped(priority, recurring, until) ==
    Request(90, priority, Some(0), Some(0), Some(8 * HOUR), Some(9 * HOUR),
            FALSE, None, recurring, until)
Weekly(duration, priority, split, sm, until) ==
    Request(duration, priority, None, None, None, None, split, sm, TRUE, Some(until))

PlainShapes ==
    { Simple(60, "high"), Simple(60, "low"),
      Split(90, "medium", Some(30)), Split(50, "low", Some(30)) }

SpecialShapes ==
    { Split(60, "low", None), Split(60, "medium", Some(0)),
      Split(60, "high", Some(0 - 30)),
      Cramped("medium", FALSE, None), Cramped("high", TRUE, Some(8)),
      Simple(0, "medium"),
      Weekly(60, "high", FALSE, None, 8) }

\* The titles of a batch are the positions of its requests.
Titled(batch) == [i \in 1..Len(batch) |-> [batch[i] EXCEPT !.title = i]]

MaxRequests == 2
MaxImported == 2

RECURSIVE SeqsUpTo(_, _)
SeqsUpTo(S, n) ==
    IF n = 0 THEN {<<>>}
    ELSE LET shorter == SeqsUpTo(S, n - 1)
         IN  shorter \cup {Append(q, x) : q \in {r \in shorter : Len(r) = n - 1}, x \in S}

CoreBatches ==
    (SeqsUpTo(PlainShapes, MaxRequests) \ {<<>>})
    \cup {<<x>> : x \in SpecialShapes}
    \cup {<<x, y>> : x \in SpecialShapes, y \in PlainShapes}
    \cup {<<y, x>> : x \in SpecialShapes, y \in PlainShapes}
    \cup { <<Split(60, "low", None), Cramped("high", TRUE, Some(8))>>,
           <<Split(60, "high", None), Cramped("low", TRUE, Some(8))>> }

Imported(start, end) == [start |-> start, end |-> end]

\* 09:00-10:00; 10:00:01-12:00, one second after it; an event that ends
\* when it starts; an event without a start.
CoreImportedPool ==
    { Imported(Iso(At(0, 9, 0), Some(UTC)), Iso(At(0, 10, 0), Some(UTC))),
      Imported(Iso(At(0, 10, 0) + 1, Some(UTC)), Iso(At(0, 12, 0), Some(UTC))),
      Imported(Iso(At(0, 11, 0), Some(UTC)), Iso(At(0, 11, 0), Some(UTC))) }

Scenario(batch, imported, ws, we, prefs, rnd, tz) ==
    [batch |-> Titled(batch), imported |-> imported, window_start |-> ws,
     window_end |-> we, preferences |-> prefs, randomize |-> rnd, server_tz |-> tz]

\* Requests contending for day 0, 08:00-12:00 UTC, no preferences.
CoreScenarios ==
    { Scenario(b, i, Iso(At(0, 8, 0), Some(UTC)), Iso(At(0, 12, 0), Some(UTC)),
               None, r, UTC)
        : b \in CoreBatches, i \in SeqsUpTo(CoreImportedPool, MaxImported),
          r \in BOOLEAN }

\* Weekly requests whose occurrence on day 7 meets imported events: one over
\* the clock time of the first occurrence, one over the whole of day 7.
RecurBatches ==
    { <<Weekly(60, "high", FALSE, None, 8)>>,
      <<Weekly(60, "medium", FALSE, None, 15)>>,
      <<Weekly(60, "low", TRUE, Some(30), 8)>>,
      <<Simple(60, "high"), Weekly(60, "low", FALSE, None, 8)>> }

RecurImportedLists ==
    { <<>>,
      <<Imported(Iso(At(7, 8, 30), Some(UTC)), Iso(At(7, 9, 30), Some(UTC)))>>,
      <<Imported(Iso(At(7, 0, 0), Some(UTC)), Iso(At(8, 0, 0), Some(UTC)))>>,
      <<Imported(Iso(At(4, 0, 0), None), Iso(At(11, 0, 0), None))>> }

RecurScenarios ==
    { Scenario(b, i, Iso(At(0, 8, 0), Some(UTC)), Iso(At(0, 12, 0), Some(UTC)),
               None, r, tz)
        : b \in RecurBatches, i \in RecurImportedLists, r \in BOOLEAN,
          tz \in {UTC, CHICAGO} }

\* Preferences: ranks, wake and bed times, blackout days, timezone.
BandKeys == {TIME_WINDOWS[i].key : i \in 1..Len(TIME_WINDOWS)}
NoRanks == [k \in BandKeys |-> None]
EveningFirst ==
    [k \in BandKeys |->
        CASE k = "evening_rank" -> Some(1)
          [] k = "afternoon_rank" -> Some(2)
          [] k = "late_morning_rank" -> Some(3)
          [] k = "early_morning_rank" -> Some(4)
          [] k = "night_rank" -> Some(5)
          [] OTHER -> Some(6)]

Preferences(ranks, wake, bed, blackout, tz) ==
    Some([ranks |-> ranks, wake_time |-> wake, bed_time |-> bed,
          blackout_days |-> blackout, timezone |-> tz])

PrefChoices ==
    { Preferences(rk, wb[1], wb[2], bl, tz)
        : rk \in {NoRanks, EveningFirst},
          wb \in { <<None, None>>, <<Some(7 * HOUR), Some(22 * HOUR)>>,
                   <<Some(20 * HOUR), Some(2 * HOUR)>> },
          bl \in { None, Some(<<"mon">>), Some(<<"tue", "someday">>) },
          tz \in { None, Some(TOKYO), Some(CHICAGO) } }

PrefBatches ==
    { <<Simple(60, "high")>>, <<Split(90, "medium", Some(30))>>,
      <<Cramped("medium", FALSE, None)>>,
      <<Weekly(60, "high", FALSE, None, 8)>> }

PrefImportedLists ==
    { <<>>,
      <<Imported(Iso(At(0, 9, 0), Some(UTC)), Iso(At(0, 10, 0), Some(UTC)))>> }

\* A two-day window given by the caller, or the default horizon.
PrefScenarios ==
    { Scenario(b, i, Iso(At(0, 0, 0), Some(UTC)), Iso(At(1, 12, 0), Some(UTC)),
               p, r, UTC)
        : b \in PrefBatches, i \in PrefImportedLists, p \in PrefChoices,
          r \in BOOLEAN }
    \cup
    { Scenario(b, i, None, None, p, FALSE, UTC)
        : b \in PrefBatches, i \in PrefImportedLists, p \in PrefChoices }

\* Scenario A: one request of 60 minutes, one imported event 09:00-10:00,
\* the window the whole of that day, no preferences.
ScenarioA(rnd) ==
    Scenario(<<Simple(60, "medium")>>,
             <<Imported(Iso(At(0, 9, 0), Some(UTC)), Iso(At(0, 10, 0), Some(UTC)))>>,
             Iso(At(0, 0, 0), Some(UTC)), Iso(At(0, 23, 59), Some(UTC)),
             None, rnd, UTC)

DayScenarios == { ScenarioA(r) : r \in BOOLEAN }

\* A split request of 50 minutes in chunks of 30 and 20, with 20 minutes
\* free ahead of an imported event 08:20-09:00 and three hours after it.
ScenarioGap(rnd) ==
    Scenario(<<Split(50, "low", Some(30))>>,
             <<Imported(Iso(At(0, 8, 20), Some(UTC)), Iso(At(0, 9, 0), Some(UTC)))>>,
             Iso(At(0, 8, 0), Some(UTC)), Iso(At(0, 12, 0), Some(UTC)),
             None, rnd, UTC)

GapScenarios == { ScenarioGap(r) : r \in BOOLEAN }

\* Scenario D: evening ranked best, the window 09:00-22:00 all free, one
\* request of 60 minutes.
ScenarioD(rnd) ==
    Scenario(<<Simple(60, "medium")>>, <<>>,
             Iso(At(0, 9, 0), Some(UTC)), Iso(At(0, 22, 0), Some(UTC)),
             Preferences(EveningFirst, None, None, None, None), rnd, UTC)

EveningScenarios == { ScenarioD(r) : r \in BOOLEAN }

\* Requests with constraints of their own: dates only, times only, both;
\* with and without preferences, in three timezones.
ConstrainedBatches ==
    { <<Request(60, "medium", Some(1), Some(1), None, None, FALSE, None, FALSE, None)>>,
      <<Request(60, "medium", None, None, Some(8 * HOUR), Some(10 * HOUR),
                FALSE, None, FALSE, None)>>,
      <<Request(60, "high", Some(0), Some(1), Some(8 * HOUR), Some(10 * HOUR),
                TRUE, Some(30), FALSE, None)>> }

ConstrainedPrefs ==
    { None }
    \cup { Preferences(rk, wb[1], wb[2], None, tz)
             : rk \in {NoRanks, EveningFirst},
               wb \in { <<None, None>>, <<Some(7 * HOUR), Some(22 * HOUR)>> },
               tz \in { None, Some(TOKYO), Some(CHICAGO) } }

ConstrainedScenarios ==
    { Scenario(b, i, Iso(At(0, 0, 0), Some(UTC)), Iso(At(1, 12, 0), Some(UTC)),
               p, r, UTC)
        : b \in ConstrainedBatches, i \in PrefImportedLists,
          p \in ConstrainedPrefs, r \in BOOLEAN }

Scenarios ==
    CoreScenarios \cup RecurScenarios \cup PrefScenarios \cup DayScenarios
    \cup GapScenarios \cup EveningScenarios \cup ConstrainedScenarios

InitRun(sc) ==
    /\ event_requests_raw = sc.batch
    /\ imported_events = sc.imported
    /\ window_start = sc.window_start
    /\ window_end = sc.window_end
    /\ preferences = sc.preferences
    /\ randomize = sc.randomize
    /\ server_tz = sc.server_tz
    /\ current_busy = <<>>
    /\ events_sorted = <<>>
    /\ scheduled_events = <<>>
    /\ pc = "call"
    /\ ev_idx = 0
    /\ chunks = <<>>
    /\ remaining = 0
    /\ chunk_idx = 0
    /\ start_time = None
    /\ end_time = None
    /\ occurrence_date = 0
    /\ r_start = None
    /\ err = "none"
    /\ busy = <<>>
    /\ free_result = <<>>
    /\ StoreIdle
    /\ WebIdle

Init == \E sc \in Scenarios : InitRun(sc)

Spec == Init /\ [][Next]_vars

----------------------------------------------------------------------------
(* split_into_chunks alone: one call on any duration and chunk size *)

MaxDuration == 6

SplitRequests ==
    { Request(d, "medium", None, None, None, None, sp, sm, FALSE, None)
        : d \in (0 - 2)..MaxDuration, sp \in BOOLEAN,
          sm \in {None} \cup {Some(m) : m \in (0 - 2)..4} }

InitSplit ==
    /\ \E r \in SplitRequests : events_sorted = <<r>>
    /\ event_requests_raw = <<>>
    /\ imported_events = <<>>
    /\ window_start = None
    /\ window_end = None
    /\ preferences = None
    /\ randomize = FALSE
    /\ server_tz = UTC
    /\ current_busy = <<>>
    /\ scheduled_events = <<>>
    /\ pc = "for_event"
    /\ ev_idx = 1
    /\ chunks = <<>>
    /\ remaining = 0
    /\ chunk_idx = 0
    /\ start_time = None
    /\ end_time = None
    /\ occurrence_date = 0
    /\ r_start = None
    /\ err = "none"
    /\ busy = <<>>
    /\ free_result = <<>>
    /\ StoreIdle
    /\ WebIdle

NextSplit ==
    \/ SplitIntoChunks
    \/ SplitLoop
    \/ SplitReturn

SpecSplit == InitSplit /\ [][NextSplit]_vars

----------------------------------------------------------------------------
(* merge_busy_slots and invert_slots alone: one list of intervals, in any
   order, merged, merged again, and inverted over a window.  Instants are
   seconds, so that the tolerance of one second is one unit. *)

MaxIntervals == 3
MaxInstant == 4

Intervals ==
    { <<DT(p[1], UTC), DT(p[2], UTC)>>
        : p \in { q \in (0..MaxInstant) \X (0..MaxInstant) : q[1] <= q[2] } }

IntervalLists == SeqsUpTo(Intervals, MaxIntervals)

Windows ==
    { <<DT(p[1], UTC), DT(p[2], UTC)>>
        : p \in { q \in (0..MaxInstant) \X (0..MaxInstant) : q[1] < q[2] } }

InitIntervals ==
    /\ busy \in IntervalLists
    /\ current_busy = <<>>
    /\ free_result = <<>>
    /\ StoreIdle
    /\ WebIdle
    /\ pc = "merge_call"
    /\ event_requests_raw = <<>>
    /\ imported_events = <<>>
    /\ window_start = None
    /\ window_end = None
    /\ preferences = None
    /\ randomize = FALSE
    /\ server_tz = UTC
    /\ events_sorted = <<>>
    /\ scheduled_events = <<>>
    /\ ev_idx = 1
    /\ chunks = <<>>
    /\ remaining = 0
    /\ chunk_idx = 0
    /\ start_time = None
    /\ end_time = None
    /\ occurrence_date = 0
    /\ r_start = None
    /\ err = "none"

IntervalFrame ==
    UNCHANGED <<event_requests_raw, imported_events, preferences, randomize,
                server_tz, events_sorted, scheduled_events, ev_idx, chunks,
                remaining, chunk_idx, start_time, end_time, occurrence_date,
                r_start, err, busy, store_vars, web_vars>>

\* Line 522: current_busy = merge_busy_slots(busy[:]).
MergeBusy ==
    /\ pc = "merge_call"
    /\ current_busy' = merge_busy_slots(busy)
    /\ pc' = "merged"
    /\ UNCHANGED <<window_start, window_end, free_result>>
    /\ IntervalFrame

\* Line 462: current_busy[:] = merge_busy_slots(current_busy).
MergeAgain ==
    /\ pc = "merged"
    /\ current_busy' = merge_busy_slots(current_busy)
    /\ pc' = "merged_again"
    /\ UNCHANGED <<window_start, window_end, free_result>>
    /\ IntervalFrame

\* Lines 702-706: invert_slots(merge_busy_slots(busy_slots), window_start,
\* window_end), over any window.
InvertMerged ==
    /\ pc = "merged"
    /\ \E w \in Windows :
          /\ window_start' = Some(w[1])
          /\ window_end' = Some(w[2])
          /\ free_result' = invert_slots(current_busy, w[1], w[2])
    /\ pc' = "inverted"
    /\ UNCHANGED current_busy
    /\ IntervalFrame

NextIntervals ==
    \/ MergeBusy
    \/ MergeAgain
    \/ InvertMerged

SpecIntervals == InitIntervals /\ [][NextIntervals]_vars

----------------------------------------------------------------------------
(* models.py: calendars of several users, the event table, and the Event
   objects the caller holds.  Instants are small integers. *)

MaxStored == 2
MaxTime == 3

Times == 0..MaxTime
TimePairs == Times \X Times

\* Three calendars: two of user u1, one of user u2.
Users == {"u1", "u2"}
Calendars == {1, 2, 3}
CalendarOwner(c) == IF c = 3 THEN "u2" ELSE "u1"

\* A row as Calendar.create_event writes it: duration=end_time - start_time.
Row(c, s, e) ==
    [calendar |-> c, start_time |-> s, end_time |-> e, duration |-> e - s]
Ids == 1..Len(db_events)

\* EventQuerySet.for_user: filter(calendar__owner=user).
for_user(rows, ids, user) ==
    { id \in ids : CalendarOwner(rows[id].calendar) = user }

\* EventQuerySet.for_calendar: filter(calendar=calendar).
for_calendar(rows, ids, calendar) ==
    { id \in ids : rows[id].calendar = calendar }

\* A variant of between that also matches events that touch the range.
between_touching(rows, ids, start, end) ==
    { id \in ids : rows[id].start_time <= end /\ rows[id].end_time >= start }

\* EventQuerySet.between: filter(start_time__lt=end, end_time__gt=start).
between(rows, ids, start, end) ==
    { id \in ids : rows[id].start_time < end /\ rows[id].end_time > start }

\* Calendar.all_events: self.events.all().
all_events(calendar) == for_calendar(db_events, Ids, calendar)

\* Calendar.events_between.
events_between(calendar, start, end) ==
    between(db_events, for_calendar(db_events, Ids, calendar), start, end)

\* Calendar.has_conflict; exclude_event is None or <<id>>.
has_conflict(calendar, start, end, exclude_event) ==
    LET conflicts == between(db_events, for_calendar(db_events, Ids, calendar),
                             start, end)
        kept == IF ~IsNone(exclude_event) THEN conflicts \ {Val(exclude_event)}
                ELSE conflicts
    IN  kept # {}

\* Event.overlaps, on the object.
overlaps(ev, start, end) == ev.start_time < end /\ ev.end_time > start

\* Event.is_upcoming, is_ongoing, is_past, on the object.
is_upcoming(ev) == ev.start_time >= clock
is_ongoing(ev) == ev.start_time <= clock /\ clock < ev.end_time
is_past(ev) == ev.end_time < clock

\* A variant of safe that lets an event end when it starts.
safe_lenient(ev) == ~(ev.end_time < ev.start_time)

\* Event.safe raises ValidationError when the end is not after the start.
safe(ev) == ~(ev.end_time <= ev.start_time)

\* Event.save after safe: a duration that is not set (zero is falsy) is
\* filled in from the times; the object is then written to its row.
save(ev) ==
    IF ev.duration = 0 THEN [ev EXCEPT !.duration = ev.end_time - ev.start_time]
    ELSE ev

StoreInit ==
    /\ db_events = <<>>
    /\ inst_events = <<>>
    /\ provenance = <<>>
    /\ clock = 0
    /\ query_result = <<>>
    /\ SchedIdle
    /\ WebIdle

StoreFrame == UNCHANGED <<sched_vars, web_vars>>

\* Calendar.create_event.
CreateEvent(c, s, e) ==
    /\ Len(db_events) < MaxStored
    /\ IF e <= s
       THEN /\ query_result' = [op |-> "create_event", raised |-> "ValidationError"]
            /\ UNCHANGED <<db_events, inst_events, provenance>>
       ELSE /\ db_events' = Append(db_events, Row(c, s, e))
            /\ inst_events' = Append(inst_events, Row(c, s, e))
            /\ provenance' = Append(provenance, [created_in |-> c, home |-> c])
            /\ query_result' = [op |-> "create_event", raised |-> "none"]
    /\ UNCHANGED clock
    /\ StoreFrame

\* Event.reschedule: the object takes the new times, then save() validates
\* it and writes every field of it to its row.
RescheduleEvent(id, s, e) ==
    /\ id \in Ids
    /\ LET self == [inst_events[id] EXCEPT !.start_time = s, !.end_time = e,
                                           !.duration = e - s]
       IN  IF safe(self)
           THEN /\ inst_events' = [inst_events EXCEPT ![id] = save(self)]
                /\ db_events' = [db_events EXCEPT ![id] = save(self)]
                /\ query_result' = [op |-> "reschedule", raised |-> "none"]
           ELSE /\ inst_events' = [inst_events EXCEPT ![id] = self]
                /\ UNCHANGED db_events
                /\ query_result' = [op |-> "reschedule", raised |-> "ValidationError"]
    /\ UNCHANGED <<provenance, clock>>
    /\ StoreFrame

\* Event.move_to_calendar.
MoveToCalendar(id, c) ==
    /\ id \in Ids
    /\ LET self == [inst_events[id] EXCEPT !.calendar = c]
       IN  IF safe(self)
           THEN /\ inst_events' = [inst_events EXCEPT ![id] = save(self)]
                /\ db_events' = [db_events EXCEPT ![id] = save(self)]
                /\ provenance' = [provenance EXCEPT ![id].home = c]
                /\ query_result' = [op |-> "move_to_calendar", raised |-> "none"]
           ELSE /\ inst_events' = [inst_events EXCEPT ![id] = self]
                /\ UNCHANGED <<db_events, provenance>>
                /\ query_result' = [op |-> "move_to_calendar", raised |-> "ValidationError"]
    /\ UNCHANGED clock
    /\ StoreFrame

\* Calendar.merge_from: Event.objects.for_calendar(other).update(calendar=self);
\* the objects the caller holds are not refreshed.
MergeFrom(c, other) ==
    /\ db_events' = [id \in Ids |->
                        IF db_events[id].calendar = other
                        THEN [db_events[id] EXCEPT !.calendar = c]
                        ELSE db_events[id]]
    /\ provenance' = [id \in Ids |->
                         IF db_events[id].calendar = other
                         THEN [provenance[id] EXCEPT !.home = c]
                         ELSE provenance[id]]
    /\ query_result' = [op |-> "merge_from", raised |-> "none"]
    /\ UNCHANGED <<inst_events, clock>>
    /\ StoreFrame

\* timezone.now() moves on.
Tick ==
    /\ clock < MaxTime
    /\ clock' = clock + 1
    /\ UNCHANGED <<db_events, inst_events, provenance, query_result>>
    /\ StoreFrame

\* One range (start, end) put to Event.overlaps of every object,
\* Event.objects.between, Calendar.events_between and Calendar.has_conflict.
AskRange(c, s, e, exclude_event) ==
    /\ query_result' =
          [op |-> "range", calendar |-> c, start |-> s, end |-> e,
           exclude_event |-> exclude_event,
           overlaps |-> { id \in Ids : overlaps(inst_events[id], s, e) },
           between |-> between(db_events, Ids, s, e),
           events_between |-> events_between(c, s, e),
           has_conflict |-> has_conflict(c, s, e, exclude_event)]
    /\ UNCHANGED <<db_events, inst_events, provenance, clock>>
    /\ StoreFrame

\* Event.objects.for_user of every user and all_events of every calendar.
AskOwners ==
    /\ query_result' =
          [op |-> "owners",
           for_user |-> [u \in Users |-> for_user(db_events, Ids, u)],
           all_events |-> [c \in Calendars |-> all_events(c)]]
    /\ UNCHANGED <<db_events, inst_events, provenance, clock>>
    /\ StoreFrame

\* is_upcoming, is_ongoing and is_past of one object.
AskStatus(id) ==
    /\ id \in Ids
    /\ query_result' =
          [op |-> "status", id |-> id, now |-> clock,
           is_upcoming |-> is_upcoming(inst_events[id]),
           is_ongoing |-> is_ongoing(inst_events[id]),
           is_past |-> is_past(inst_events[id])]
    /\ UNCHANGED <<db_events, inst_events, provenance, clock>>
    /\ StoreFrame

\* Events in calendars, and ranges put to the four overlap tests.
CreateAnywhere == \E c \in Calendars, p \in TimePairs : CreateEvent(c, p[1], p[2])
AskAnyRange ==
    \E c \in Calendars, p \in TimePairs, x \in {None} \cup {Some(id) : id \in Ids} :
        AskRange(c, p[1], p[2], x)

NextOverlap ==
    \/ CreateAnywhere
    \/ AskAnyRange

SpecOverlap == StoreInit /\ [][NextOverlap]_vars

\* Events created in, moved between and merged across the calendars.
CreateInCalendar == \E c \in Calendars, p \in {<<0, 1>>, <<1, 0>>} : CreateEvent(c, p[1], p[2])
MoveAny == \E id \in Ids, c \in Calendars : MoveToCalendar(id, c)
MergeAny == \E c \in Calendars, other \in Calendars : MergeFrom(c, other)

NextOwnership ==
    \/ CreateInCalendar
    \/ MoveAny
    \/ MergeAny
    \/ AskOwners

SpecOwnership == StoreInit /\ [][NextOwnership]_vars

\* One event, rescheduled as time passes.
CreateOne == db_events = <<>> /\ \E p \in TimePairs : CreateEvent(1, p[1], p[2])
RescheduleAny == \E id \in Ids, p \in TimePairs : RescheduleEvent(id, p[1], p[2])
AskAnyStatus == \E id \in Ids : AskStatus(id)

NextLifecycle ==
    \/ CreateOne
    \/ RescheduleAny
    \/ Tick
    \/ AskAnyStatus

SpecLifecycle == StoreInit /\ [][NextLifecycle]_vars

----------------------------------------------------------------------------
(* Properties *)

IsPlaced(r) == ~IsNone(r.start) /\ ~IsNone(r.end)
Disjoint(s1, e1, s2, e2) == e1 <= s2 \/ e2 <= s1
Last(s) == s[Len(s)]

\* C1: when schedule_events has returned, no two placed records of the run
\* overlap in time: for any two of them, one ends at or before the start of
\* the other.
C1_NonOverlap ==
    pc = "done" =>
        \A i, j \in 1..Len(scheduled_events) :
            (i < j /\ IsPlaced(scheduled_events[i]) /\ IsPlaced(scheduled_events[j]))
            => Disjoint(Val(scheduled_events[i].start).t, Val(scheduled_events[i].end).t,
                        Val(scheduled_events[j].start).t, Val(scheduled_events[j].end).t)

\* A run has returned three placed chunks of positive length, two of them
\* back to back.
C1_Witness ==
    /\ pc = "done"
    /\ \E i, j, k \in 1..Len(scheduled_events) :
          /\ i < j /\ j < k
          /\ \A n \in {i, j, k} :
                /\ IsPlaced(scheduled_events[n])
                /\ Val(scheduled_events[n].end).t > Val(scheduled_events[n].start).t
          /\ Val(scheduled_events[i].end).t = Val(scheduled_events[j].start).t

\* The imported events that count as busy time: those with a start and an
\* end, the end after the start.
ValidImported ==
    { i \in 1..Len(imported_events) :
        /\ ~IsNone(imported_events[i].start)
        /\ ~IsNone(imported_events[i].end)
        /\ Val(to_dt_utc(imported_events[i].end)).t
               > Val(to_dt_utc(imported_events[i].start)).t }

\* C2: every placed record, of a base chunk or of a recurrence occurrence,
\* is disjoint from every imported event that has a start and an end with
\* end > start.
C2_AvoidsImported ==
    \A n \in 1..Len(scheduled_events) : \A i \in ValidImported :
        IsPlaced(scheduled_events[n]) =>
            Disjoint(Val(scheduled_events[n].start).t, Val(scheduled_events[n].end).t,
                     Val(to_dt_utc(imported_events[i].start)).t,
                     Val(to_dt_utc(imported_events[i].end)).t)

\* A placed record of positive length starts exactly where an imported
\* event with end > start ends.
C2_Witness ==
    /\ \E n \in 1..Len(scheduled_events) : \E i \in ValidImported :
          /\ IsPlaced(scheduled_events[n])
          /\ Val(scheduled_events[n].end).t > Val(scheduled_events[n].start).t
          /\ Val(scheduled_events[n].start).t = Val(to_dt_utc(imported_events[i].end)).t


\* The busy set is merged: sorted by start, no two intervals overlapping,
\* more than the tolerance between one interval's end and the next's start.
BusyMerged(b) ==
    \A i \in 1..(Len(b) - 1) :
        /\ b[i][1].t <= b[i + 1][1].t
        /\ b[i + 1][1].t - b[i][2].t > MERGE_TOLERANCE

Covered(b, p) == \E i \in 1..Len(b) : b[i][1].t <= p /\ p < b[i][2].t

\* The instants at which the coverage of either busy set may change.
Breakpoints(b1, b2) ==
    {b1[i][1].t : i \in 1..Len(b1)} \cup {b1[i][2].t : i \in 1..Len(b1)}
    \cup {b2[i][1].t : i \in 1..Len(b2)} \cup {b2[i][2].t : i \in 1..Len(b2)}

\* A step that is a call of schedule_single_event, and one that placed.
SingleEventCall == Len(scheduled_events') = Len(scheduled_events) + 1
SingleEventPlaced == SingleEventCall /\ IsPlaced(Last(scheduled_events'))

NewStart == Val(Last(scheduled_events').start).t
NewEnd == Val(Last(scheduled_events').end).t

\* The coverage after the step is the coverage before it plus the placed
\* interval, and nothing else.
CoverageGrowsByPlaced ==
    \A p \in Breakpoints(current_busy, current_busy') \cup {NewStart, NewEnd} :
        Covered(current_busy', p)
            <=> (Covered(current_busy, p) \/ (NewStart <= p /\ p < NewEnd))

\* The coverage after the step is the coverage before it plus the placed
\* interval plus, at most, the stretches of no more than the tolerance
\* right before and right after the placed interval.
CoverageGrowsWithinTolerance ==
    \A p \in Breakpoints(current_busy, current_busy') \cup {NewStart, NewEnd} :
        /\ (Covered(current_busy, p) \/ (NewStart <= p /\ p < NewEnd))
               => Covered(current_busy', p)
        /\ Covered(current_busy', p)
               => \/ Covered(current_busy, p)
                  \/ (NewStart - MERGE_TOLERANCE <= p /\ p < NewEnd + MERGE_TOLERANCE)

\* C3 as stated: the busy set is merged from the start of the run and after
\* every call of schedule_single_event, and a call that places adds exactly
\* the placed interval to the coverage of the set.
C3_Original ==
    [][/\ BusyMerged(current_busy')
       /\ (SingleEventCall /\ ~SingleEventPlaced) => current_busy' = current_busy
       /\ SingleEventPlaced => CoverageGrowsByPlaced]_vars

\* C3 amended: the busy set is merged from the start of the run and after
\* every call of schedule_single_event; a call that places adds the placed
\* interval to the coverage and, besides it, at most the gap of no more than
\* one second between the placed interval and a neighbouring busy interval.
C3_MergedWithinTolerance ==
    [][/\ BusyMerged(current_busy')
       /\ (SingleEventCall /\ ~SingleEventPlaced) => current_busy' = current_busy
       /\ SingleEventPlaced => CoverageGrowsWithinTolerance]_vars

\* A placement has just been merged into a busy set of two intervals one
\* second apart from it: the set is one interval, longer than the sum of
\* what was placed and what was busy.
C3_Witness ==
    /\ pc = "placed"
    /\ ~IsNone(start_time)
    /\ Len(current_busy) = 1
    /\ \E i \in ValidImported :
          Val(to_dt_utc(imported_events[i].start)).t = Val(end_time).t + MERGE_TOLERANCE
    /\ current_busy[1][2].t - current_busy[1][1].t > 2 * HOUR


\* A well-formed request: a positive duration, and a positive chunk size
\* when it is split.
WellFormed(req) ==
    /\ req.duration_minutes > 0
    /\ req.split => (~IsNone(req.split_minutes) /\ Val(req.split_minutes) > 0)

InRecurrenceSearch == pc \in {"recur_loop", "recur_step2", "recur_step3"}

\* C4 as stated: a run on well-formed requests never raises, also when a
\* chunk of a recurring request with a recurring_until date fits nowhere,
\* and the recurrence search is entered only for a chunk that was placed.
C4_NeverRaises ==
    (\A i \in 1..Len(event_requests_raw) : WellFormed(event_requests_raw[i]))
        => /\ pc # "raised"
           /\ InRecurrenceSearch => ~IsNone(start_time)

\* The candidates of the base chunk about to be placed.
BaseCandidates ==
    form_candidates(current_busy, Val(window_start), Val(window_end),
                    CurEvent, ChunkPreferences)

NoCandidateFits ==
    \A i \in 1..Len(BaseCandidates) :
        BaseCandidates[i][2].t - BaseCandidates[i][1].t < CurChunk * MINUTE

\* C5: when no candidate of a base chunk is at least chunk_minutes long,
\* schedule_single_event appends exactly one record, unscheduled, with
\* requested_minutes = chunk_minutes and no start or end, returns
\* (None, None) and leaves the busy set unchanged.
C5_UnscheduledPlaceholder ==
    [][(pc = "for_chunk" /\ pc' = "placed" /\ NoCandidateFits)
        => /\ Len(scheduled_events') = Len(scheduled_events) + 1
           /\ SubSeq(scheduled_events', 1, Len(scheduled_events)) = scheduled_events
           /\ Last(scheduled_events').unscheduled = TRUE
           /\ Last(scheduled_events').requested_minutes = Some(CurChunk)
           /\ Last(scheduled_events').name = CurEvent.title
           /\ IsNone(Last(scheduled_events').start)
           /\ IsNone(Last(scheduled_events').end)
           /\ IsNone(start_time') /\ IsNone(end_time')
           /\ current_busy' = current_busy]_vars

\* Scenario E has just been tried: date_start = date_end = 2025-12-01,
\* 08:00-09:00, 90 minutes, and the record appended is the placeholder.
C5_Witness ==
    /\ pc = "placed"
    /\ CurEvent.date_start = Some(0) /\ CurEvent.date_end = Some(0)
    /\ CurEvent.time_start = Some(8 * HOUR) /\ CurEvent.time_end = Some(9 * HOUR)
    /\ CurChunk = 90
    /\ IsNone(start_time)
    /\ Last(scheduled_events).unscheduled
    /\ Last(scheduled_events).requested_minutes = Some(90)

\* The second chunk of a split request has just been found to fit nowhere.
C5_WitnessSplit ==
    /\ pc = "placed"
    /\ CurEvent.split /\ chunk_idx = 2
    /\ IsNone(start_time)
    /\ Last(scheduled_events).requested_minutes = Some(CurChunk)

\* The records of a request in the output, in order, and the minutes of a
\* record: its length when placed, its requested minutes when not.
RecordsOf(title) == SelectSeq(scheduled_events, LAMBDA r : r.name = title)
MinutesOf(r) ==
    IF IsPlaced(r) THEN (Val(r.end).t - Val(r.start).t) \div MINUTE
    ELSE Val(r.requested_minutes)
WholeMinutes(r) ==
    IsPlaced(r) => (Val(r.end).t - Val(r.start).t) % MINUTE = 0

\* The number of chunks of a request and the minutes of its k-th chunk.
SplitSize(req) == IF IsNone(req.split_minutes) THEN 0 ELSE Val(req.split_minutes)
ChunkCount(req) ==
    IF req.split
    THEN (req.duration_minutes + SplitSize(req) - 1) \div SplitSize(req)
    ELSE 1
ChunkMinutes(req, k) ==
    IF req.split /\ k < ChunkCount(req) THEN SplitSize(req)
    ELSE req.duration_minutes - (ChunkCount(req) - 1) * (IF req.split THEN SplitSize(req) ELSE 0)

RECURSIVE SumMinutes(_)
SumMinutes(recs) ==
    IF recs = <<>> THEN 0
    ELSE MinutesOf(recs[1]) + SumMinutes(Tail(recs))

\* C6: in a completed run, every non-recurring request of duration D > 0
\* has exactly one record per chunk, each placed record is as long as its
\* chunk, and the placed lengths plus the unscheduled requested minutes
\* add up to D.
C6_DurationReconstructs ==
    pc = "done" =>
        \A i \in 1..Len(event_requests_raw) :
            LET req == event_requests_raw[i]
                recs == RecordsOf(req.title)
            IN  (~req.recurring /\ req.duration_minutes > 0)
                => /\ Len(recs) = ChunkCount(req)
                   /\ \A k \in 1..Len(recs) :
                         /\ WholeMinutes(recs[k])
                         /\ MinutesOf(recs[k]) = ChunkMinutes(req, k)
                         /\ IsPlaced(recs[k]) = ~recs[k].unscheduled
                   /\ SumMinutes(recs) = req.duration_minutes

\* A completed run in which a split request of 50 minutes in chunks of 30
\* has its chunk of 30 placed and its chunk of 20 left unscheduled.
C6_Witness ==
    /\ pc = "done"
    /\ \E i \in 1..Len(event_requests_raw) :
          LET req == event_requests_raw[i]
              recs == RecordsOf(req.title)
          IN  /\ req.split /\ req.duration_minutes = 50
              /\ Len(recs) = 2
              /\ IsPlaced(recs[1]) /\ MinutesOf(recs[1]) = 30
              /\ recs[2].unscheduled /\ MinutesOf(recs[2]) = 20


\* The sort key of a request: (priority rank, minus duration).
KeyLeq(a, b) ==
    \/ PRIORITY_ORDER(a.priority) < PRIORITY_ORDER(b.priority)
    \/ /\ PRIORITY_ORDER(a.priority) = PRIORITY_ORDER(b.priority)
       /\ 0 - a.duration_minutes <= 0 - b.duration_minutes

\* Two requests that differ in priority (and title) only.
DifferInPriorityOnly(a, b) ==
    /\ a.priority # b.priority
    /\ [a EXCEPT !.priority = "", !.title = 0] = [b EXCEPT !.priority = "", !.title = 0]

AllPlaced(title) ==
    /\ RecordsOf(title) # <<>>
    /\ \A k \in 1..Len(RecordsOf(title)) : IsPlaced(RecordsOf(title)[k])
AllUnscheduled(title) ==
    /\ RecordsOf(title) # <<>>
    /\ \A k \in 1..Len(RecordsOf(title)) : RecordsOf(title)[k].unscheduled

\* The position of the first record of a request in the output.
FirstRecord(title) ==
    CHOOSE k \in 1..Len(scheduled_events) :
        /\ scheduled_events[k].name = title
        /\ \A j \in 1..(k - 1) : scheduled_events[j].name # title

\* C7: requests are attempted in ascending order of (priority rank, minus
\* duration), high = 0 < medium = 1 < low = 2, whatever the input order; of
\* two requests that differ only in priority, the one of higher priority is
\* attempted first, and when only one of them is placed it is that one.
C7_PriorityOrder ==
    /\ PRIORITY_ORDER("high") = 0
    /\ PRIORITY_ORDER("medium") = 1
    /\ PRIORITY_ORDER("low") = 2
    /\ pc # "call" =>
          /\ Len(events_sorted) = Len(event_requests_raw)
          /\ \A i \in 1..Len(event_requests_raw) :
                \E j \in 1..Len(events_sorted) :
                    events_sorted[j].title = event_requests_raw[i].title
          /\ \A i, j \in 1..Len(events_sorted) :
                i < j => KeyLeq(events_sorted[i], events_sorted[j])
          /\ ev_idx \in 1..Len(events_sorted) =>
                \A k \in 1..Len(scheduled_events) :
                    \E j \in 1..ev_idx : events_sorted[j].title = scheduled_events[k].name
    /\ pc = "done" =>
          \A i, j \in 1..Len(event_requests_raw) :
              LET a == event_requests_raw[i]
                  b == event_requests_raw[j]
              IN  (/\ DifferInPriorityOnly(a, b)
                   /\ PRIORITY_ORDER(a.priority) < PRIORITY_ORDER(b.priority)
                   /\ a.duration_minutes > 0)
                  => /\ FirstRecord(a.title) < FirstRecord(b.title)
                     /\ ~(AllUnscheduled(a.title) /\ AllPlaced(b.title))

\* A completed run on <<low, high>>, two requests of 60 minutes, where only
\* 08:00-09:00 is free: the high request is placed, the low one is not.
C7_Witness ==
    /\ pc = "done"
    /\ Len(event_requests_raw) = 2
    /\ event_requests_raw[1].priority = "low"
    /\ event_requests_raw[2].priority = "high"
    /\ DifferInPriorityOnly(event_requests_raw[1], event_requests_raw[2])
    /\ AllPlaced(event_requests_raw[2].title)
    /\ AllUnscheduled(event_requests_raw[1].title)

RECURSIVE SumSeq(_)
SumSeq(q) == IF q = <<>> THEN 0 ELSE q[1] + SumSeq(Tail(q))

SplitReturned == pc = "for_chunk"

\* C8: for split = true, D > 0 and S > 0 the chunks returned sum to D, each
\* is in 1..S and all but the last equal S; for split = false the list
\* returned is [D].
C8_ChunkConservation ==
    SplitReturned =>
        LET D == CurEvent.duration_minutes
            S == SplitSize(CurEvent)
        IN  /\ (CurEvent.split /\ D > 0 /\ S > 0) =>
                  /\ SumSeq(chunks) = D
                  /\ \A k \in 1..Len(chunks) : chunks[k] \in 1..S
                  /\ \A k \in 1..(Len(chunks) - 1) : chunks[k] = S
                  /\ Len(chunks) = (D + S - 1) \div S
            /\ ~CurEvent.split => chunks = <<D>>

\* split_into_chunks(5, true, 2) has returned [2, 2, 1].
C8_Witness ==
    /\ SplitReturned
    /\ CurEvent.split
    /\ CurEvent.duration_minutes = 5
    /\ CurEvent.split_minutes = Some(2)
    /\ chunks = <<2, 2, 1>>

\* C9 as stated: with split = true and split_minutes missing, zero or
\* negative the call raises; it neither enters its loop nor returns a list.
C9_FailsOnBadSplitMinutes ==
    (/\ ev_idx \in 1..Len(events_sorted)
     /\ CurEvent.split
     /\ (IsNone(CurEvent.split_minutes) \/ Val(CurEvent.split_minutes) <= 0))
        => \/ pc = "for_event"
           \/ pc = "raised" /\ err = "ValueError"

\* C10 as stated: a batch with a request that has split = true and no
\* split_minutes does not complete, and when the run raises it raises the
\* validation error with no record of that request in the output.
C10_ValidationErrorBeforePlacement ==
    \A i \in 1..Len(event_requests_raw) :
        (event_requests_raw[i].split /\ IsNone(event_requests_raw[i].split_minutes))
            => /\ pc # "done"
               /\ pc = "raised" =>
                     /\ err = "ValueError"
                     /\ RecordsOf(event_requests_raw[i].title) = <<>>

\* C11 as stated: a request whose duration_minutes is zero or negative is
\* rejected: the run does not complete normally and no placed record bears
\* the request's title.
C11_RejectsNonPositiveDuration ==
    \A i \in 1..Len(event_requests_raw) :
        event_requests_raw[i].duration_minutes <= 0
            => /\ pc # "done"
               /\ \A k \in 1..Len(scheduled_events) :
                     scheduled_events[k].name = event_requests_raw[i].title
                         => ~IsPlaced(scheduled_events[k])

\* A step of the recurrence search: a call of schedule_single_event made
\* for a weekly occurrence date.
RecurrenceCall == InRecurrenceSearch /\ SingleEventCall
RecurrencePlaced == RecurrenceCall /\ IsPlaced(Last(scheduled_events'))

\* The date of a placed record's start in the preference timezone.
LocalDateOf(r) == DateOf(astimezone(Val(r.start), ChunkPreferences.local_tz))

MovesToNextWeek ==
    /\ pc' = "recur_loop"
    /\ occurrence_date' = occurrence_date + WEEK_DAYS
StaysOnDate(next_pc) ==
    /\ pc' = next_pc
    /\ occurrence_date' = occurrence_date

\* C12: for each weekly occurrence date (first occurrence date + 7k days, up
\* to recurring_until) the steps are tried in order: same time on that date;
\* anywhere on that date only after the first failed; anywhere within 3 days
\* either side only after the second failed too.  A step that places commits
\* one placed record and moves to the next weekly date, so no occurrence
\* date gets more than one placed record.
C12_RecurrenceStepsInOrder ==
    [][/\ RecurrenceCall =>
            /\ occurrence_date <= Val(CurEvent.recurring_until)
            /\ (occurrence_date - DateOf(Val(start_time))) % WEEK_DAYS = 0
            /\ occurrence_date > DateOf(Val(start_time))
            /\ pc = "recur_loop" =>
                  IF RecurrencePlaced THEN MovesToNextWeek
                  ELSE StaysOnDate("recur_step2")
            /\ pc = "recur_step2" =>
                  /\ IsNone(r_start)
                  /\ IF RecurrencePlaced THEN MovesToNextWeek
                     ELSE StaysOnDate("recur_step3")
            /\ pc = "recur_step3" =>
                  /\ IsNone(r_start)
                  /\ MovesToNextWeek
            /\ RecurrencePlaced =>
                  /\ r_start' = Last(scheduled_events').start
                  /\ Last(scheduled_events').name = CurEvent.title
                  /\ pc \in {"recur_loop", "recur_step2"} =>
                        LocalDateOf(Last(scheduled_events')) = occurrence_date
                  /\ pc = "recur_step3" =>
                        /\ LocalDateOf(Last(scheduled_events')) >= occurrence_date - RECUR_WEEK_SPAN
                        /\ LocalDateOf(Last(scheduled_events')) <= occurrence_date + RECUR_WEEK_SPAN
            /\ ~RecurrencePlaced => IsNone(r_start')
       /\ (pc' \in {"recur_step2", "recur_step3"}) => pc \in {"recur_loop", "recur_step2"}
      ]_vars

\* The third step has just placed an occurrence on another day than the
\* occurrence date, the first two steps having failed.
C12_Witness ==
    /\ pc = "recur_loop"
    /\ ~IsNone(r_start)
    /\ IsPlaced(Last(scheduled_events))
    /\ LocalDateOf(Last(scheduled_events)) # occurrence_date - WEEK_DAYS
    /\ LocalDateOf(Last(scheduled_events)) >= occurrence_date - WEEK_DAYS - RECUR_WEEK_SPAN
    /\ LocalDateOf(Last(scheduled_events)) > DateOf(Val(start_time))

\* The first step of the search for an occurrence date, and the number k of
\* the occurrence it is made for.
SameTimeCall == pc = "recur_loop" /\ RecurrenceCall
OccurrenceNumber == (occurrence_date - DateOf(Val(start_time))) \div WEEK_DAYS

\* The interval that starts k weeks after the first occurrence: the same
\* wall-clock time, in any timezone of fixed offset, on the date 7k days on.
SameTimeStart == Val(start_time).t + OccurrenceNumber * WEEK_DAYS * DAY
SameTimeEnd == SameTimeStart + CurChunk * MINUTE

LocalTz == ChunkPreferences.local_tz
LocalDate(t) == (t + LocalTz) \div DAY

\* The interval is free of busy time, and allowed: its date in the
\* preference timezone is not after recurring_until and not a blackout day.
SameTimeFree ==
    \A i \in 1..Len(current_busy) :
        Disjoint(SameTimeStart, SameTimeEnd, current_busy[i][1].t, current_busy[i][2].t)
SameTimeAllowed ==
    /\ LocalDate(SameTimeStart) <= Val(CurEvent.recurring_until)
    /\ ~InSeq(Weekday(LocalDate(SameTimeStart)), ChunkPreferences.blackout_days)

\* C13 as stated: when the interval at the first occurrence's local clock
\* time on the date 7k days later is free and allowed, the k-th occurrence
\* is placed at exactly that time, on the same local weekday.
C13_SameLocalClockTime ==
    [][(SameTimeCall /\ CurChunk > 0 /\ SameTimeFree /\ SameTimeAllowed)
        => /\ RecurrencePlaced
           /\ NewStart = SameTimeStart
           /\ NewEnd = SameTimeEnd
           /\ Weekday(LocalDate(NewStart)) = Weekday(LocalDate(Val(start_time).t))]_vars

\* C14 as stated: the recurrence search never adds an unscheduled
\* placeholder: every record appended while searching for a weekly
\* occurrence is a placed record, and a step that fails appends nothing.
C14_NoRecurrencePlaceholder ==
    [][InRecurrenceSearch =>
          \A k \in (Len(scheduled_events) + 1)..Len(scheduled_events') :
              /\ ~scheduled_events'[k].unscheduled
              /\ IsPlaced(scheduled_events'[k])]_vars

\* The run of Scenario A with randomize off has returned.
ScenarioADone ==
    /\ pc = "done"
    /\ event_requests_raw = ScenarioA(FALSE).batch
    /\ imported_events = ScenarioA(FALSE).imported
    /\ window_start = Some(DT(At(0, 0, 0), UTC))
    /\ window_end = Some(DT(At(0, 23, 59), UTC))
    /\ IsNone(preferences)
    /\ ~randomize

OnePlacedAt(start, end) ==
    /\ Len(scheduled_events) = 1
    /\ IsPlaced(scheduled_events[1])
    /\ Val(scheduled_events[1].start).t = start
    /\ Val(scheduled_events[1].end).t = end

\* C15 as stated: in Scenario A the request is placed at 10:00-11:00.
C15_Original == ScenarioADone => OnePlacedAt(At(0, 10, 0), At(0, 11, 0))

\* C15 amended: in Scenario A, with randomize off, the request is placed at
\* 00:00-01:00, the earliest free stretch of 60 minutes in the window, which
\* lies before the busy interval.
C15_EarliestFreeSlot == ScenarioADone => OnePlacedAt(At(0, 0, 0), At(0, 1, 0))

\* The run of Scenario A has returned its one record.
C15_Witness == ScenarioADone /\ Len(scheduled_events) = 1

\* C16 as stated: with randomize off, whenever chunks i and i + 1 of a
\* split request are both placed, chunk i + 1 starts at or after the end of
\* chunk i.
C16_ChunksAscend ==
    ~randomize =>
        \A i \in 1..Len(event_requests_raw) :
            LET req == event_requests_raw[i]
                recs == RecordsOf(req.title)
            IN  (req.split /\ ~req.recurring) =>
                    \A k \in 1..(Len(recs) - 1) :
                        (IsPlaced(recs[k]) /\ IsPlaced(recs[k + 1]))
                            => Val(recs[k + 1].start).t >= Val(recs[k].end).t

\* C16 amended: with randomize off and no preferences, whenever chunks i and
\* i + 1 of a split request are both placed and of equal length, chunk i + 1
\* starts at or after the end of chunk i.  (A shorter last chunk may fit a
\* gap ahead of the chunk before it, and under preferences the order is that
\* of the bands.)
C16_EqualChunksAscend ==
    (~randomize /\ IsNone(preferences)) =>
        \A i \in 1..Len(event_requests_raw) :
            LET req == event_requests_raw[i]
                recs == RecordsOf(req.title)
            IN  (req.split /\ ~req.recurring) =>
                    \A k \in 1..(Len(recs) - 1) :
                        (/\ IsPlaced(recs[k]) /\ IsPlaced(recs[k + 1])
                         /\ MinutesOf(recs[k]) = MinutesOf(recs[k + 1]))
                            => Val(recs[k + 1].start).t >= Val(recs[k].end).t

\* Scenario B has returned: 90 minutes in chunks of 30, no preferences,
\* randomize off, three placements with increasing start times, the last
\* one after an imported event.
C16_Witness ==
    /\ pc = "done"
    /\ ~randomize /\ IsNone(preferences)
    /\ \E i \in 1..Len(event_requests_raw) :
          LET req == event_requests_raw[i]
              recs == RecordsOf(req.title)
          IN  /\ req.split /\ req.duration_minutes = 90
              /\ Len(recs) = 3
              /\ \A k \in 1..3 : IsPlaced(recs[k]) /\ MinutesOf(recs[k]) = 30
              /\ Val(recs[2].start).t = Val(recs[1].end).t
              /\ Val(recs[3].start).t > Val(recs[2].end).t

\* The instants of a band, of wake_time and of bed_time on a date of the
\* preference timezone; a band or a night that ends at or before its start
\* ends on the following day.
LocalInstant(day, tod) == day * DAY + tod - LocalTz
BandStart(day, band) == LocalInstant(day, band.t_start)
BandEnd(day, band) ==
    LocalInstant(day, band.t_end) + (IF band.t_end <= band.t_start THEN DAY ELSE 0)
WakeInstant(day) == LocalInstant(day, Val(ChunkPreferences.wake_time))
BedInstant(day) ==
    LocalInstant(day, Val(ChunkPreferences.bed_time))
        + (IF /\ ~IsNone(ChunkPreferences.wake_time)
              /\ Val(ChunkPreferences.bed_time) <= Val(ChunkPreferences.wake_time)
           THEN DAY ELSE 0)

Largest(S) == CHOOSE x \in S : \A y \in S : y <= x
Smallest(S) == CHOOSE x \in S : \A y \in S : x <= y

\* The intersection of a candidate with a band on a date, clamped to
\* wake_time and bed_time when they are set.
OverlapStart(cand, day, band) ==
    Largest({cand[1].t, BandStart(day, band)}
            \cup (IF IsNone(ChunkPreferences.wake_time) THEN {} ELSE {WakeInstant(day)}))
OverlapEnd(cand, day, band) ==
    Smallest({cand[2].t, BandEnd(day, band)}
             \cup (IF IsNone(ChunkPreferences.bed_time) THEN {} ELSE {BedInstant(day)}))
BandFits(cand, day, idx, needed) ==
    LET band == ChunkPreferences.time_of_day_ranks[idx]
    IN  OverlapEnd(cand, day, band) - OverlapStart(cand, day, band) >= needed

\* The dates a candidate spans and the (date, band) pairs with room, bands
\* numbered in rank order.
DatesSpanned(cand) == LocalDate(cand[1].t)..LocalDate(cand[2].t)
FitsOf(cand, needed) ==
    { p \in DatesSpanned(cand) \X (1..Len(ChunkPreferences.time_of_day_ranks)) :
        BandFits(cand, p[1], p[2], needed) }
FirstFit(fits) ==
    CHOOSE p \in fits :
        \A q \in fits : p[1] < q[1] \/ (p[1] = q[1] /\ p[2] <= q[2])

\* What find_preferred_subwindow returns for a candidate, as instants.
SubwindowOf(cand, needed) ==
    find_preferred_subwindow(cand[1], cand[2], needed,
        ChunkPreferences.time_of_day_ranks, ChunkPreferences.wake_time,
        ChunkPreferences.bed_time, ChunkPreferences.local_tz)

SubwindowAsSpecified(cand, needed) ==
    LET fits == FitsOf(cand, needed)
        got == SubwindowOf(cand, needed)
    IN  IF fits = {}
        THEN IsNone(got)
        ELSE LET p == FirstFit(fits)
                 band == ChunkPreferences.time_of_day_ranks[p[2]]
                 sub == Val(got)
             IN  /\ ~IsNone(got)
                 /\ sub[1].t = OverlapStart(cand, p[1], band)
                 /\ sub[2].t = sub[1].t + needed
                 /\ cand[1].t <= sub[1].t /\ sub[2].t <= cand[2].t

AboutToPlace == pc = "for_chunk" /\ chunk_idx <= Len(chunks)

\* The run of Scenario D with randomize off has returned.
ScenarioDDone ==
    /\ pc = "done"
    /\ event_requests_raw = ScenarioD(FALSE).batch
    /\ imported_events = <<>>
    /\ window_start = Some(DT(At(0, 9, 0), UTC))
    /\ window_end = Some(DT(At(0, 22, 0), UTC))
    /\ preferences = ScenarioD(FALSE).preferences
    /\ ~randomize

\* C17: for every candidate handed to schedule_single_event for a base
\* chunk, find_preferred_subwindow returns the first needed-long stretch of
\* the first band, by date and then by rank, whose intersection with the
\* candidate (clamped to wake/bed) is at least needed long, inside the
\* candidate, and no fit only when no intersection is long enough; in
\* Scenario D the event is placed at 16:00-17:00.
C17_PreferredSubwindow ==
    /\ (AboutToPlace /\ ChunkPreferences.time_of_day_ranks # <<>>) =>
          LET candidates == BaseCandidates
          IN  \A i \in 1..Len(candidates) :
                  SubwindowAsSpecified(candidates[i], CurChunk * MINUTE)
    /\ ScenarioDDone => OnePlacedAt(At(0, 16, 0), At(0, 17, 0))

\* Scenario D has returned with its one record at 16:00.
C17_Witness ==
    /\ ScenarioDDone
    /\ OnePlacedAt(At(0, 16, 0), At(0, 17, 0))

\* C18 as stated: no placed record starts on a blackout weekday, the
\* weekday being that of its start in the preference timezone.
C18_NoBlackoutStart ==
    \A k \in 1..Len(scheduled_events) :
        IsPlaced(scheduled_events[k]) =>
            ~InSeq(Weekday(LocalDate(Val(scheduled_events[k].start).t)),
                   ChunkPreferences.blackout_days)

WakeAndBedSet ==
    /\ ~IsNone(ChunkPreferences.wake_time)
    /\ ~IsNone(ChunkPreferences.bed_time)

\* A placed record lies inside the wake/bed clamp of the date, in the
\* preference timezone, on which it starts.
InsideClamp(r) ==
    LET day == LocalDate(Val(r.start).t)
    IN  /\ WakeInstant(day) <= Val(r.start).t
        /\ Val(r.end).t <= BedInstant(day)

\* C19: when wake_time and bed_time are set, every placed record starts at
\* or after wake_time and ends at or before bed_time of its local date, a
\* bed_time at or before wake_time being that of the following day.
C19_InsideWakeBed ==
    WakeAndBedSet =>
        \A k \in 1..Len(scheduled_events) :
            IsPlaced(scheduled_events[k]) => InsideClamp(scheduled_events[k])

\* A record has been placed under wake 20:00 and bed 02:00, the night
\* running into the following day, in a timezone other than UTC.
C19_Witness ==
    /\ WakeAndBedSet
    /\ Val(ChunkPreferences.bed_time) <= Val(ChunkPreferences.wake_time)
    /\ LocalTz # UTC
    /\ scheduled_events # <<>>
    /\ IsPlaced(Last(scheduled_events))
    /\ InsideClamp(Last(scheduled_events))

\* A base chunk has just been placed.
BaseChunkPlaced == pc = "placed" /\ ~IsNone(start_time)

\* C20: every placed base chunk respects the constraints of its request,
\* read in the preference timezone: the date on which it starts lies in
\* date_start..date_end when those are given, and it lies inside
\* time_start..time_end of that date when those are given.
C20_RespectsConstraints ==
    BaseChunkPlaced =>
        LET r == Last(scheduled_events)
            day == LocalDate(Val(r.start).t)
        IN  /\ r.start = start_time /\ r.end = end_time
            /\ r.name = CurEvent.title
            /\ ~IsNone(CurEvent.date_start) => day >= Val(CurEvent.date_start)
            /\ ~IsNone(CurEvent.date_end) => day <= Val(CurEvent.date_end)
            /\ ~IsNone(CurEvent.time_start) =>
                  Val(r.start).t >= LocalInstant(day, Val(CurEvent.time_start))
            /\ ~IsNone(CurEvent.time_end) =>
                  Val(r.end).t <= LocalInstant(day, Val(CurEvent.time_end))

\* A base chunk of a request with dates and times of its own has just been
\* placed in a timezone other than UTC, on the second of its dates.
C20_Witness ==
    /\ BaseChunkPlaced
    /\ LocalTz # UTC
    /\ CurEvent.date_start = Some(0) /\ CurEvent.date_end = Some(1)
    /\ CurEvent.time_start = Some(8 * HOUR) /\ CurEvent.time_end = Some(10 * HOUR)
    /\ LocalDate(Val(start_time).t) = 1

\* The preferences are present and carry no rank for any band.
CarriesNoRanks ==
    /\ Truthy(preferences)
    /\ \A k \in BandKeys : IsNone(Val(preferences).ranks[k])

\* C21 as stated: when the preferences are present but carry no band rank
\* and randomize is off, the candidates of a base chunk are in
\* chronological order and the chunk is placed at the start of the
\* chronologically earliest candidate that is long enough.
C21_ChronologicalWithoutRanks ==
    [][(pc = "for_chunk" /\ pc' = "placed" /\ CarriesNoRanks /\ ~randomize) =>
          LET candidates == BaseCandidates
              needed == CurChunk * MINUTE
              fit == { i \in 1..Len(candidates) :
                         candidates[i][2].t - candidates[i][1].t >= needed }
          IN  /\ candidates = SortByStart(candidates)
              /\ fit # {} =>
                    /\ ~IsNone(start_time') /\ ~IsNone(end_time')
                    /\ Val(start_time').t =
                          Smallest({ candidates[i][1].t : i \in fit })
                    /\ Val(end_time').t = Val(start_time').t + needed]_vars

\* The candidates of the base chunk about to be placed as _form_candidates
\* hands them to score_and_sort_candidates, before any sorting.
CandidatesBeforeSort ==
    LET prefs == ChunkPreferences
        ws == astimezone(Val(window_start), prefs.local_tz)
        we == astimezone(Val(window_end), prefs.local_tz)
        busy_local == [i \in 1..Len(current_busy) |->
                          <<astimezone(current_busy[i][1], prefs.local_tz),
                            astimezone(current_busy[i][2], prefs.local_tz)>>]
    IN  FreeSlotLoop(invert_slots(merge_busy_slots(busy_local), ws, we),
                     1, CurEvent, prefs)

\* The score of a candidate as the claim describes it, in seconds of
\* overlap: the sum over the bands, in rank order, of the weight of the band
\* (the number of bands less the bands before it) times its overlap with the
\* candidate on the local date on which the candidate starts.
BandOverlap(cand, band) ==
    LET day == LocalDate(cand[1].t)
        s == Largest({cand[1].t, BandStart(day, band)})
        e == Smallest({cand[2].t, BandEnd(day, band)})
    IN  IF e > s THEN e - s ELSE 0

ScoreAsSpecified(cand) ==
    LET ranks == ChunkPreferences.time_of_day_ranks
    IN  SumSeq([idx \in 1..Len(ranks) |->
                   (Len(ranks) - (idx - 1)) * BandOverlap(cand, ranks[idx])])

\* How many times x occurs in the sequence s.
Count(s, x) == Cardinality({ i \in 1..Len(s) : s[i] = x })

\* C22: score_and_sort_candidates returns a permutation of its input,
\* ordered by descending score and, among equal scores, by earliest start,
\* the score being the weighted overlap with the bands on the candidate's
\* local start date, a band that ends at or before its start running into
\* the next day.
C22_SortedByScore ==
    (AboutToPlace /\ ChunkPreferences.time_of_day_ranks # <<>>) =>
        LET input == CandidatesBeforeSort
            out == score_and_sort_candidates(input,
                       ChunkPreferences.time_of_day_ranks, LocalTz)
            score == [i \in 1..Len(out) |-> ScoreAsSpecified(out[i])]
        IN  /\ Len(out) = Len(input)
            /\ \A i \in 1..Len(input) : Count(out, input[i]) = Count(input, input[i])
            /\ out = BaseCandidates
            /\ \A i \in 1..(Len(out) - 1) :
                  \/ score[i] > score[i + 1]
                  \/ score[i] = score[i + 1] /\ out[i][1].t <= out[i + 1][1].t

\* Candidates are about to be tried in an order that is not chronological,
\* two of them with the same score and one with a band that runs past
\* midnight into it.
C22_Witness ==
    /\ AboutToPlace /\ ChunkPreferences.time_of_day_ranks # <<>>
    /\ LocalTz # UTC
    /\ LET out == BaseCandidates
       IN  /\ Len(out) >= 3
           /\ \E i \in 1..(Len(out) - 1) : out[i][1].t > out[i + 1][1].t
           /\ \E i \in 1..(Len(out) - 1) :
                 /\ ScoreAsSpecified(out[i]) = ScoreAsSpecified(out[i + 1])
                 /\ out[i][1].t < out[i + 1][1].t
           /\ \E i \in 1..Len(out), k \in 1..Len(ChunkPreferences.time_of_day_ranks) :
                 LET band == ChunkPreferences.time_of_day_ranks[k]
                 IN  /\ band.t_end <= band.t_start
                     /\ BandOverlap(out[i], band) > 0

\* C23: merge_busy_slots is idempotent: merging the merged list again gives
\* the merged list.
C23_MergeIdempotent ==
    pc = "merged_again" => current_busy = merge_busy_slots(busy)

\* Three intervals given out of order have been merged into two, and merged
\* again.
C23_Witness ==
    /\ pc = "merged_again"
    /\ Len(busy) = 3
    /\ busy # SortByStart(busy)
    /\ Len(current_busy) = 2

\* x lies inside y, both closed intervals of instants.
Within(x, y) == y[1].t <= x[1].t /\ x[2].t <= y[2].t

\* C24: for every list of intervals, in any order, merge_busy_slots returns
\* intervals sorted by start, more than one second apart, each input
\* interval inside exactly one of them, each of them starting at an input
\* start and ending at an input end; an empty input gives an empty output.
C24_MergedDisjointSorted ==
    pc = "merged" =>
        LET out == current_busy
        IN  /\ \A i \in 1..(Len(out) - 1) :
                  /\ out[i][1].t <= out[i + 1][1].t
                  /\ out[i][2].t <= out[i + 1][1].t
                  /\ out[i + 1][1].t - out[i][2].t > MERGE_TOLERANCE
            /\ \A k \in 1..Len(busy) :
                  Cardinality({ i \in 1..Len(out) : Within(busy[k], out[i]) }) = 1
            /\ \A i \in 1..Len(out) :
                  /\ \E k \in 1..Len(busy) : busy[k][1].t = out[i][1].t
                  /\ \E k \in 1..Len(busy) : busy[k][2].t = out[i][2].t
            /\ busy = <<>> => out = <<>>

\* Three intervals given out of order, two of them one second apart, have
\* been merged into two.
C24_Witness ==
    /\ pc = "merged"
    /\ Len(busy) = 3
    /\ busy # SortByStart(busy)
    /\ Len(current_busy) = 2
    /\ \E j, k \in 1..3 :
          /\ busy[k][1].t - busy[j][2].t = MERGE_TOLERANCE
          /\ \A n \in 1..3 : n # k => busy[n][2].t < busy[k][1].t
          /\ \E i \in 1..2 : Within(busy[j], current_busy[i])
                             /\ Within(busy[k], current_busy[i])

\* The instant p lies in the half-open interval x.
Holds(x, p) == x[1].t <= p /\ p < x[2].t

\* C25: for any window [a, b) with a < b and any busy set, the free
\* intervals of invert_slots over the merged busy set and the merged busy
\* intervals tile the window: every instant of the window is in exactly one
\* of them, no free interval is empty or reaches outside the window, and
\* busy intervals wholly outside the window contribute nothing.
C25_FreeAndBusyTile ==
    pc = "inverted" =>
        LET a == Val(window_start).t
            b == Val(window_end).t
            inside == { i \in 1..Len(current_busy) :
                          current_busy[i][2].t > a /\ current_busy[i][1].t < b }
        IN  /\ \A p \in a..(b - 1) :
                  Cardinality({ i \in 1..Len(free_result) : Holds(free_result[i], p) })
                  + Cardinality({ i \in 1..Len(current_busy) : Holds(current_busy[i], p) })
                  = 1
            /\ \A i \in 1..Len(free_result) :
                  /\ free_result[i][1].t < free_result[i][2].t
                  /\ a <= free_result[i][1].t /\ free_result[i][2].t <= b
            /\ inside = {} => free_result = << <<Val(window_start), Val(window_end)>> >>

\* A window has been inverted into two free intervals around a busy one,
\* with another busy interval wholly outside the window.
C25_Witness ==
    /\ pc = "inverted"
    /\ Len(free_result) = 2
    /\ Len(current_busy) = 2
    /\ \E i \in 1..2 : current_busy[i][1].t >= Val(window_end).t
    /\ \E i \in 1..2 : /\ current_busy[i][1].t > Val(window_start).t
                       /\ current_busy[i][2].t < Val(window_end).t
                       /\ current_busy[i][1].t < current_busy[i][2].t

Matches(ev, s, e) == ev.start_time < e /\ ev.end_time > s

\* C27: Event.overlaps, EventQuerySet.between, Calendar.events_between and
\* Calendar.has_conflict use the same strict test: an event matches exactly
\* when its start is before the end of the range and its end after the start
\* of the range; an event inside the range matches, one that touches it at
\* an endpoint or lies after it does not; has_conflict is true exactly when
\* an event of the calendar other than exclude_event matches.
C27_SameStrictOverlapTest ==
    (query_result # <<>> /\ query_result.op = "range") =>
        LET q == query_result
        IN  /\ q.overlaps = { id \in Ids : Matches(inst_events[id], q.start, q.end) }
            /\ q.between = { id \in Ids : Matches(db_events[id], q.start, q.end) }
            /\ q.events_between =
                  { id \in Ids : /\ db_events[id].calendar = q.calendar
                                 /\ Matches(db_events[id], q.start, q.end) }
            /\ q.has_conflict <=>
                  \E id \in Ids : /\ db_events[id].calendar = q.calendar
                                  /\ q.exclude_event # Some(id)
                                  /\ Matches(db_events[id], q.start, q.end)
            /\ \A id \in Ids :
                  /\ (q.start <= db_events[id].start_time
                      /\ db_events[id].end_time <= q.end) => id \in q.between
                  /\ (db_events[id].end_time <= q.start
                      \/ db_events[id].start_time >= q.end) => id \notin q.between

\* A range has been put to a calendar with two events, one inside the range
\* and excluded, the other touching the end of the range: no conflict.
C27_Witness ==
    /\ query_result # <<>> /\ query_result.op = "range"
    /\ Len(db_events) = 2
    /\ \E i, j \in Ids :
          /\ i # j
          /\ db_events[i].calendar = query_result.calendar
          /\ db_events[j].calendar = query_result.calendar
          /\ query_result.start <= db_events[i].start_time
          /\ db_events[i].end_time <= query_result.end
          /\ query_result.exclude_event = Some(i)
          /\ db_events[j].start_time = query_result.end
          /\ query_result.events_between = {i}
          /\ query_result.overlaps = {i}
          /\ ~query_result.has_conflict

OwnersAsked == query_result # <<>> /\ query_result.op = "owners"

\* for_user(u) holds exactly the events whose calendar u owns.
ForUserByCurrentOwner ==
    \A u \in Users :
        query_result.for_user[u] =
            { id \in Ids : CalendarOwner(db_events[id].calendar) = u }

\* all_events of a calendar holds exactly the events that the last create,
\* move or merge put into it.
AllEventsByLastPlacement ==
    \A c \in Calendars :
        query_result.all_events[c] = { id \in Ids : provenance[id].home = c }

\* C28: after any sequence of create_event, move_to_calendar and
\* merge_from over calendars of several users, for_user(u) holds exactly the
\* events whose calendar u owns, an event created in one user's calendar
\* never appears in another user's result, and all_events of a calendar
\* holds exactly the events created in or moved into it.
C28_Original ==
    OwnersAsked =>
        /\ ForUserByCurrentOwner
        /\ \A u \in Users, id \in Ids :
              CalendarOwner(provenance[id].created_in) # u
                  => id \notin query_result.for_user[u]
        /\ AllEventsByLastPlacement

\* C29 as stated: for a stored event and any current instant, is_upcoming
\* and is_past are never both true; an event whose start is after now is
\* upcoming and not past; after a reschedule to times that end before now it
\* is past and not upcoming.
C29_NeverUpcomingAndPast ==
    (query_result # <<>> /\ query_result.op = "status") =>
        LET q == query_result
            ev == inst_events[q.id]
        IN  /\ ~(q.is_upcoming /\ q.is_past)
            /\ ev.start_time > q.now => (q.is_upcoming /\ ~q.is_past)
            /\ ev.end_time < q.now => (q.is_past /\ ~q.is_upcoming)

\* ---------------------------------------------------------------------
\* views.py: the session of one user across requests.  The handlers that
\* write the schedule inputs are modelled: upload_ics, add_events,
\* preferences, delete_event and view_calendar with its edit, delete, undo,
\* redo and export actions.  A request that raises is answered with status 500 and
\* the session middleware does not save the session of such a response, so
\* the session is then as it was before the request.
\* ---------------------------------------------------------------------

\* Bound on the length of the undo and redo stacks reached.
MaxUndo == 1

\* Bound on the number of events the calendar of the user reaches by exports.
MaxCalendar == 1

\* _push_undo keeps the last 20 snapshots.
UNDO_CAP == 20

\* What import_ics can return, what the formset can hold, what the
\* preferences form can hold, and the titles an edit can submit.
UploadFiles ==
    { <<>>,
      <<[uid |-> "1", title |-> "a"]>>,
      <<[uid |-> "1", title |-> "a"], [uid |-> "2", title |-> "b"]>> }
RequestBatches == { <<>>, <<"r">>, <<"r", "s">> }
PreferenceForms == { "p", "q" }
NewTitles == { "", "z" }
EditTypes == { "imported", "task", "" }
Indexes == 0..1

\* A session key is unset or holds a value; a list-valued key holds a list
\* or Python's None.
Unset == <<>>
Stored(v) == <<v>>
PyNone == [is_none |-> TRUE, items |-> <<>>]
PyList(l) == [is_none |-> FALSE, items |-> l]

\* request.session.get(key, default).
get(s, key, default) == IF s[key] = Unset THEN default ELSE s[key][1]

EmptySession ==
    [imported_events |-> Unset, event_requests |-> Unset,
     scheduled_events |-> Unset, schedule_update |-> Unset,
     study_preferences |-> Unset,
     schedule_undo_stack |-> Unset, schedule_redo_stack |-> Unset]

\* _db_events_to_session: the events of the calendar as session mappings,
\* their uid the id of the row.
RowUids == <<"row1", "row2", "row3", "row4">>
db_events_to_session(calendar) ==
    [i \in 1..Len(calendar) |-> [uid |-> RowUids[i], title |-> calendar[i]]]

UidKey(ev) == <<"uid", ev.uid>>
TitleKey(ev) == <<"title", ev.title>>

\* The first loop of the deduplication: the keys of each session event are
\* added to seen, then the event is appended when neither key is in seen.
RECURSIVE SessionLoop(_, _, _, _)
SessionLoop(session_events, i, seen, imported) ==
    IF i > Len(session_events) THEN [seen |-> seen, imported_events |-> imported]
    ELSE LET ev == session_events[i]
             seen1 == seen \cup {UidKey(ev), TitleKey(ev)}
         IN  SessionLoop(session_events, i + 1, seen1,
                 IF UidKey(ev) \notin seen1 /\ TitleKey(ev) \notin seen1
                 THEN Append(imported, ev) ELSE imported)

\* The second loop: a calendar event is appended when neither key is in seen.
RECURSIVE DbLoop(_, _, _, _)
DbLoop(db, i, seen, imported) ==
    IF i > Len(db) THEN imported
    ELSE DbLoop(db, i + 1, seen,
             IF UidKey(db[i]) \notin seen /\ TitleKey(db[i]) \notin seen
             THEN Append(imported, db[i]) ELSE imported)

\* The requests the engine finds no room for: schedule_single_event returns
\* a placeholder for them, with start and end None.
Unplaceable == { "s" }

\* An entry of the scheduled list: an imported event as it is, or what the
\* engine returns for a request, a placed record or a placeholder, here with
\* the inputs it was computed from.
ImportedEntry(ev) ==
    [name |-> ev.title, uid |-> ev.uid, origin |-> "imported", placed |-> TRUE,
     against |-> <<>>, preferences |-> "-"]
TaskEntry(title, imported, prefs) ==
    [name |-> title, uid |-> title, origin |-> "task",
     placed |-> title \notin Unplaceable,
     against |-> [i \in 1..Len(imported) |-> imported[i].title],
     preferences |-> prefs]
ScheduleEventsCall(event_requests, imported, prefs) ==
    [i \in 1..Len(event_requests) |-> TaskEntry(event_requests[i], imported, prefs)]

Raise(kind, s, calendar) ==
    [raised |-> kind, session |-> s, calendar |-> calendar, scheduled_events |-> <<>>]

\* view_calendar up to the end of the recompute block.
Recompute(s, calendar) ==
    LET scheduled == get(s, "scheduled_events", <<>>)
    IN  IF ~(scheduled = <<>> \/ get(s, "schedule_update", TRUE))
        THEN [raised |-> "none", session |-> s, calendar |-> calendar,
              scheduled_events |-> scheduled]
        ELSE
        LET session_events == get(s, "imported_events", PyList(<<>>))
            event_requests == get(s, "event_requests", PyList(<<>>))
            prefs == get(s, "study_preferences", "{}")
        IN  IF session_events.is_none
            THEN Raise("TypeError", s, calendar)      \* for ev in None
            ELSE IF event_requests.is_none
            THEN Raise("TypeError", s, calendar)      \* len(None)
            ELSE
            LET first == SessionLoop(session_events.items, 1, {}, <<>>)
                imported == DbLoop(db_events_to_session(calendar), 1,
                                   first.seen, first.imported_events)
                result == [i \in 1..Len(imported) |-> ImportedEntry(imported[i])]
                          \o ScheduleEventsCall(event_requests.items, imported, prefs)
            IN  [raised |-> "none", calendar |-> calendar,
                 scheduled_events |-> result,
                 session |-> [s EXCEPT !.scheduled_events = Stored(result),
                                       !.imported_events = Stored(PyNone),
                                       !.event_requests = Stored(PyNone),
                                       !.schedule_update = Stored(FALSE)]]

\* _get_current_state, _push_undo and _apply_state.
get_current_state(s) ==
    [imported_events |-> get(s, "imported_events", PyList(<<>>)),
     event_requests |-> get(s, "event_requests", PyList(<<>>))]

push_undo_uncapped(s) ==
    [s EXCEPT !.schedule_undo_stack =
                  Stored(Append(get(s, "schedule_undo_stack", <<>>), get_current_state(s))),
              !.schedule_redo_stack = Stored(<<>>)]

push_undo(s) ==
    LET undo_stack == Append(get(s, "schedule_undo_stack", <<>>), get_current_state(s))
        capped == IF Len(undo_stack) > UNDO_CAP THEN Tail(undo_stack) ELSE undo_stack
    IN  [s EXCEPT !.schedule_undo_stack = Stored(capped),
                  !.schedule_redo_stack = Stored(<<>>)]

apply_state(s, state) ==
    [s EXCEPT !.imported_events = Stored(state.imported_events),
              !.event_requests = Stored(state.event_requests),
              !.schedule_update = Stored(TRUE),
              !.scheduled_events = Unset]

MarkStale(s) ==
    [s EXCEPT !.schedule_update = Stored(TRUE), !.scheduled_events = Unset]

\* The edit action; the index is counted from 0.  Only the title of the
\* entry is kept here, an empty new title leaving it as it is.
EditAction(st, req) ==
    LET s1 == push_undo(st.session)
        imported == get(s1, "imported_events", PyList(<<>>))
        event_requests == get(s1, "event_requests", PyList(<<>>))
    IN  IF req.type = "imported"
        THEN IF imported.is_none THEN Raise("TypeError", st.session, st.calendar)
             ELSE IF req.index < Len(imported.items)
             THEN LET ev == imported.items[req.index + 1]
                      edited == IF req.new_title # ""
                                THEN [ev EXCEPT !.title = req.new_title] ELSE ev
                  IN  [st EXCEPT !.session = MarkStale(
                          [s1 EXCEPT !.imported_events = Stored(PyList(
                              [imported.items EXCEPT ![req.index + 1] = edited]))])]
             ELSE [st EXCEPT !.session = MarkStale(s1)]
        ELSE IF req.type = "task"
        THEN IF event_requests.is_none THEN Raise("TypeError", st.session, st.calendar)
             ELSE IF req.index < Len(event_requests.items)
             THEN LET t == event_requests.items[req.index + 1]
                      edited == IF req.new_title # "" THEN req.new_title ELSE t
                  IN  [st EXCEPT !.session = MarkStale(
                          [s1 EXCEPT !.event_requests = Stored(PyList(
                              [event_requests.items EXCEPT ![req.index + 1] = edited]))])]
             ELSE [st EXCEPT !.session = MarkStale(s1)]
        ELSE [st EXCEPT !.session = MarkStale(s1)]

\* The delete action.
DeleteAction(st, req) ==
    LET s1 == push_undo(st.session)
        imported == get(s1, "imported_events", PyList(<<>>))
        event_requests == get(s1, "event_requests", PyList(<<>>))
    IN  IF req.type = "imported"
        THEN IF imported.is_none THEN Raise("TypeError", st.session, st.calendar)
             ELSE IF req.index < Len(imported.items)
             THEN [st EXCEPT !.session = MarkStale(
                      [s1 EXCEPT !.imported_events = Stored(PyList(
                          RemoveAt(imported.items, req.index + 1)))])]
             ELSE [st EXCEPT !.session = MarkStale(s1)]
        ELSE IF req.type = "task"
        THEN IF event_requests.is_none THEN Raise("TypeError", st.session, st.calendar)
             ELSE IF req.index < Len(event_requests.items)
             THEN [st EXCEPT !.session = MarkStale(
                      [s1 EXCEPT !.event_requests = Stored(PyList(
                          RemoveAt(event_requests.items, req.index + 1)))])]
             ELSE [st EXCEPT !.session = MarkStale(s1)]
        ELSE [st EXCEPT !.session = MarkStale(s1)]

\* The undo and redo actions.
UndoAction(st) ==
    LET s == st.session
        undo_stack == get(s, "schedule_undo_stack", <<>>)
        redo_stack == get(s, "schedule_redo_stack", <<>>)
    IN  IF undo_stack # <<>>
        THEN [st EXCEPT !.session = apply_state(
                 [s EXCEPT !.schedule_undo_stack =
                               Stored(SubSeq(undo_stack, 1, Len(undo_stack) - 1)),
                           !.schedule_redo_stack =
                               Stored(Append(redo_stack, get_current_state(s)))],
                 Last(undo_stack))]
        ELSE st

RedoAction(st) ==
    LET s == st.session
        undo_stack == get(s, "schedule_undo_stack", <<>>)
        redo_stack == get(s, "schedule_redo_stack", <<>>)
    IN  IF redo_stack # <<>>
        THEN [st EXCEPT !.session = apply_state(
                 [s EXCEPT !.schedule_undo_stack =
                               Stored(Append(undo_stack, get_current_state(s))),
                           !.schedule_redo_stack =
                               Stored(SubSeq(redo_stack, 1, Len(redo_stack) - 1))],
                 Last(redo_stack))]
        ELSE st

\* The loop of _save_scheduled_events_to_db: datetime.fromisoformat of the
\* start of an entry, which raises TypeError on None, then create_event.
RECURSIVE SaveLoop(_, _, _)
SaveLoop(entries, i, rows) ==
    IF i > Len(entries) THEN [raised |-> "none", calendar |-> rows]
    ELSE IF ~entries[i].placed THEN [raised |-> "TypeError", calendar |-> rows]
    ELSE SaveLoop(entries, i + 1, Append(rows, entries[i].name))

\* _save_scheduled_events_to_db: calendar.clear_events(), then the loop.
\* Each statement is committed as it runs.
save_scheduled_events_to_db(entries, calendar) == SaveLoop(entries, 1, <<>>)

\* The export action.
ExportAction(st) ==
    LET saved == save_scheduled_events_to_db(st.scheduled_events, st.calendar)
    IN  [st EXCEPT !.raised = saved.raised, !.calendar = saved.calendar]

WebInit ==
    /\ session = EmptySession
    /\ user_calendar = <<>>
    /\ response = <<>>
    /\ SchedIdle
    /\ StoreIdle

WebFrame == UNCHANGED <<sched_vars, store_vars>>

\* upload_ics, POST with a file that import_ics reads.
UploadIcs ==
    \E events \in UploadFiles :
        /\ session' = [session EXCEPT !.imported_events = Stored(PyList(events)),
                                      !.schedule_update = Stored(TRUE)]
        /\ response' = [view |-> "upload_ics", method |-> "POST",
                        action |-> "", raised |-> "none"]
        /\ UNCHANGED user_calendar
        /\ WebFrame

\* add_events, POST with a valid formset.
AddEvents ==
    \E event_requests \in RequestBatches :
        /\ session' = [session EXCEPT !.event_requests = Stored(PyList(event_requests)),
                                      !.schedule_update = Stored(TRUE)]
        /\ response' = [view |-> "add_events", method |-> "POST",
                        action |-> "", raised |-> "none"]
        /\ UNCHANGED user_calendar
        /\ WebFrame

\* preferences, POST with a valid form.
SavePreferences ==
    \E cleaned \in PreferenceForms :
        /\ session' = [session EXCEPT !.study_preferences = Stored(cleaned),
                                      !.schedule_update = Stored(TRUE)]
        /\ response' = [view |-> "preferences", method |-> "POST",
                        action |-> "", raised |-> "none"]
        /\ UNCHANGED user_calendar
        /\ WebFrame

\* view_calendar: the recompute block, then the action of a POST.
view_calendar(req) ==
    LET before == Recompute(session, user_calendar)
        after == IF before.raised # "none" \/ req.method = "GET" THEN before
                 ELSE IF req.action = "edit" THEN EditAction(before, req)
                 ELSE IF req.action = "delete" THEN DeleteAction(before, req)
                 ELSE IF req.action = "undo" THEN UndoAction(before)
                 ELSE IF req.action = "redo" THEN RedoAction(before)
                 ELSE ExportAction(before)
    IN  /\ response' = [view |-> "view_calendar", method |-> req.method,
                        action |-> req.action, raised |-> after.raised]
        /\ user_calendar' = after.calendar
        /\ IF after.raised = "none"
           THEN session' = after.session
           ELSE UNCHANGED session
        /\ WebFrame

\* delete_event, POST with the uid of an event.
delete_event(event_id) ==
    LET s1 == push_undo(session)
        updated_events == SelectSeq(get(s1, "scheduled_events", <<>>),
                                    LAMBDA ev : ev.uid # event_id)
    IN  /\ session' = [s1 EXCEPT !.scheduled_events = Stored(updated_events)]
        /\ response' = [view |-> "delete_event", method |-> "POST",
                        action |-> event_id, raised |-> "none"]
        /\ UNCHANGED user_calendar
        /\ WebFrame

\* The session after the step stays within the bounds.
WithinBounds ==
    /\ Len(get(session, "schedule_undo_stack", <<>>)) <= MaxUndo
    /\ Len(get(session, "schedule_redo_stack", <<>>)) <= MaxUndo
    /\ Len(user_calendar) <= MaxCalendar

ViewCalendar(req) == view_calendar(req) /\ WithinBounds'

\* The uids a delete_event request can name.
EventIds == { "r", "s", "row1" }
DeleteEventById == \E event_id \in EventIds : delete_event(event_id) /\ WithinBounds'

Post(action, type, index, new_title) ==
    [method |-> "POST", action |-> action, type |-> type, index |-> index,
     new_title |-> new_title]

ViewCalendarGet == ViewCalendar([method |-> "GET", action |-> "", type |-> "",
                                 index |-> 0, new_title |-> ""])
EditEvent ==
    \E type \in EditTypes, index \in Indexes, new_title \in NewTitles :
        ViewCalendar(Post("edit", type, index, new_title))
DeleteEvent ==
    \E type \in EditTypes, index \in Indexes :
        ViewCalendar(Post("delete", type, index, ""))
Undo == ViewCalendar(Post("undo", "", 0, ""))
Redo == ViewCalendar(Post("redo", "", 0, ""))
Export == ViewCalendar(Post("export", "", 0, ""))

NextSession ==
    \/ UploadIcs
    \/ AddEvents
    \/ SavePreferences
    \/ ViewCalendarGet
    \/ EditEvent
    \/ DeleteEvent
    \/ Undo
    \/ Redo
    \/ Export

SpecSession == WebInit /\ [][NextSession]_vars

\* The undo and redo stacks alone, as long as the code lets them grow.  A snapshot holds lists
\* when it is taken before the first view_calendar request or after an undo
\* to such a snapshot, None after it; the stacks hold at most MaxListSnapshots
\* snapshots with lists.
MaxListSnapshots == 1

ListSnapshots(stack) ==
    Cardinality({ i \in 1..Len(stack) : ~stack[i].imported_events.is_none })

FewListSnapshots ==
    ListSnapshots(get(session, "schedule_undo_stack", <<>>))
    + ListSnapshots(get(session, "schedule_redo_stack", <<>>)) <= MaxListSnapshots

EditOnly == view_calendar(Post("edit", "", 0, "")) /\ FewListSnapshots'
DeleteOnly == view_calendar(Post("delete", "", 0, "")) /\ FewListSnapshots'
UndoOnly == view_calendar(Post("undo", "", 0, "")) /\ FewListSnapshots'
RedoOnly == view_calendar(Post("redo", "", 0, "")) /\ FewListSnapshots'
DeleteEventOnly == delete_event("r") /\ FewListSnapshots'

UploadFirst == session = EmptySession /\ UploadIcs

NextUndo ==
    \/ UploadFirst
    \/ EditOnly
    \/ DeleteOnly
    \/ UndoOnly
    \/ RedoOnly
    \/ DeleteEventOnly

SpecUndo == WebInit /\ [][NextUndo]_vars

\* A view_calendar GET is answered in this step, the schedule marked stale
\* before it.
StaleViewStep ==
    /\ session.schedule_update = Stored(TRUE)
    /\ response' # <<>>
    /\ response'.view = "view_calendar" /\ response'.method = "GET"

ItemsOf(v) == IF v.is_none THEN <<>> ELSE v.items

\* The stored schedule is the one computed from the inputs the session held
\* before the request: every imported event of the session is in it, and
\* its tasks are the event requests of the session, one entry each in their
\* order, computed under the preferences of the session.
ComputedFromSession(before, stored) ==
    LET imported == ItemsOf(get(before, "imported_events", PyList(<<>>)))
        requests == ItemsOf(get(before, "event_requests", PyList(<<>>)))
        prefs == get(before, "study_preferences", "{}")
        tasks == SelectSeq(stored, LAMBDA e : e.origin = "task")
    IN  /\ \A i \in 1..Len(imported) :
              \E k \in 1..Len(stored) : /\ stored[k].origin = "imported"
                                        /\ stored[k].name = imported[i].title
        /\ Len(tasks) = Len(requests)
        /\ \A i \in 1..Len(tasks) : /\ tasks[i].name = requests[i]
                                    /\ tasks[i].preferences = prefs

\* The request completes and resets the flag.
StaleViewCompletes ==
    [][StaleViewStep =>
          /\ response'.raised = "none"
          /\ session'.schedule_update = Stored(FALSE)]_vars

\* C30: whenever the schedule is marked stale, the next view_calendar request
\* completes without error, stores the schedule recomputed from the imported
\* events, event requests and preferences that the session holds, and resets
\* the flag, after any sequence of requests.
C30_StaleViewRecomputes ==
    [][StaleViewStep =>
          /\ response'.raised = "none"
          /\ session'.schedule_update = Stored(FALSE)
          /\ session'.scheduled_events # Unset
          /\ ComputedFromSession(session, session'.scheduled_events[1])]_vars

\* A view_calendar request is answered in this step after running the
\* recompute block on a session that holds a list of imported events, and
\* the schedule it stored is still in the session.
RecomputedStep ==
    /\ session.imported_events # Unset
    /\ ~session.imported_events[1].is_none
    /\ \/ get(session, "scheduled_events", <<>>) = <<>>
       \/ get(session, "schedule_update", TRUE)
    /\ response' # <<>>
    /\ response'.view = "view_calendar" /\ response'.raised = "none"
    /\ session'.scheduled_events # Unset

\* The existing events as the claim lists them: the session events, then the
\* calendar events that match no session event by uid or by title and start
\* (an event is told from another by its title here).
ExistingEvents(session_events, db) ==
    session_events \o
        SelectSeq(db, LAMBDA d : \A i \in 1..Len(session_events) :
                                    /\ session_events[i].uid # d.uid
                                    /\ session_events[i].title # d.title)

\* C31: the list of existing events that view_calendar builds holds every
\* event imported in the session and each calendar event that matches no
\* session event by uid or by (title, start), each once.
C31_ExistingEventsOnce ==
    [][RecomputedStep =>
          LET existing == ExistingEvents(session.imported_events[1].items,
                                         db_events_to_session(user_calendar))
              stored == session'.scheduled_events[1]
          IN  /\ SelectSeq(stored, LAMBDA e : e.origin = "imported")
                    = [i \in 1..Len(existing) |-> ImportedEntry(existing[i])]
              /\ \A k \in 1..Len(stored) :
                    stored[k].origin = "task" =>
                        stored[k].against =
                            [i \in 1..Len(existing) |-> existing[i].title]]_vars

\* A view_calendar export is answered in this step, the recompute block
\* before it having completed.
ExportStep ==
    /\ response' # <<>>
    /\ response'.view = "view_calendar" /\ response'.action = "export"
    /\ Recompute(session, user_calendar).raised = "none"

\* C32: for any scheduled list view_calendar can hold, placeholders
\* included, _save_scheduled_events_to_db completes and the calendar then
\* holds one event for each placed entry and nothing of its previous
\* contents; the previous events are never deleted without the new ones
\* being saved.
C32_ExportSavesSchedule ==
    [][ExportStep =>
          LET entries == Recompute(session, user_calendar).scheduled_events
              placed == SelectSeq(entries, LAMBDA e : e.placed)
          IN  /\ response'.raised = "none"
              /\ user_calendar' = [i \in 1..Len(placed) |-> placed[i].name]
              /\ response'.raised # "none" => user_calendar' = user_calendar]_vars

UndoStack(s) == get(s, "schedule_undo_stack", <<>>)
RedoStack(s) == get(s, "schedule_redo_stack", <<>>)

\* A request of the given kind has completed in this step.
Completed(view, actions) ==
    /\ response' # <<>>
    /\ response'.view = view /\ response'.raised = "none"
    /\ response'.action \in actions

\* The stacks stay within the cap; an edit, a delete or a delete_event that
\* completes pushes one snapshot, discards the oldest beyond the cap and
\* empties the redo stack.
StacksCapped ==
    /\ Len(UndoStack(session')) <= UNDO_CAP
    /\ Len(UndoStack(session')) + Len(RedoStack(session')) <= UNDO_CAP
    /\ (Completed("view_calendar", {"edit", "delete"}) \/ Completed("delete_event", EventIds))
          => /\ RedoStack(session') = <<>>
             /\ UndoStack(session') # <<>>
             /\ SubSeq(UndoStack(session'), 1, Len(UndoStack(session')) - 1)
                   = IF Len(UndoStack(session)) = UNDO_CAP
                     THEN Tail(UndoStack(session)) ELSE UndoStack(session)

\* An undo on an empty undo stack, or a redo on an empty redo stack, changes
\* neither stack nor the events the session holds.
EmptyStackNoOp ==
    (\/ Completed("view_calendar", {"undo"}) /\ UndoStack(session) = <<>>
     \/ Completed("view_calendar", {"redo"}) /\ RedoStack(session) = <<>>)
        => /\ UndoStack(session') = UndoStack(session)
           /\ RedoStack(session') = RedoStack(session)
           /\ get_current_state(session') = get_current_state(session)

StacksCappedAlways == [][StacksCapped]_vars

EmptyStackOnlyRecomputes ==
    (\/ Completed("view_calendar", {"undo"}) /\ UndoStack(session) = <<>>
     \/ Completed("view_calendar", {"redo"}) /\ RedoStack(session) = <<>>)
        => /\ UndoStack(session') = UndoStack(session)
           /\ RedoStack(session') = RedoStack(session)
           /\ session' = Recompute(session, user_calendar).session

Requested(actions) ==
    /\ response' # <<>>
    /\ response'.view = "view_calendar" /\ response'.action \in actions

\* The snapshots below the top of a stack.
Below(stack) == SubSeq(stack, 1, Len(stack) - 1)

\* C34: undo and redo are inverse on the imported events and event requests
\* of the session.  An edit or delete that completes leaves on the undo
\* stack the two lists as it found them; an undo after it completes and
\* puts those lists back, leaving on the redo stack the lists as it found
\* them; a redo after it completes and puts these back in turn; no snapshot
\* already on a stack is altered by any of it.
C34_UndoRedoInverse ==
    [][LET found == get_current_state(Recompute(session, user_calendar).session)
       IN  /\ Completed("view_calendar", {"edit", "delete"}) =>
                 /\ Last(UndoStack(session')) = found
                 /\ Below(UndoStack(session')) = UndoStack(session)
           /\ (Requested({"undo"}) /\ UndoStack(session) # <<>>) =>
                 /\ response'.raised = "none"
                 /\ get_current_state(session') = Last(UndoStack(session))
                 /\ UndoStack(session') = Below(UndoStack(session))
                 /\ RedoStack(session') = Append(RedoStack(session), found)
           /\ (Requested({"redo"}) /\ RedoStack(session) # <<>>) =>
                 /\ response'.raised = "none"
                 /\ get_current_state(session') = Last(RedoStack(session))
                 /\ RedoStack(session') = Below(RedoStack(session))
                 /\ UndoStack(session') = Append(UndoStack(session), found)]_vars

\* The requests around delete_event: events are uploaded, requested, viewed,
\* exported to the calendar, deleted by uid and the deletion undone.
NextDelete ==
    \/ UploadIcs
    \/ AddEvents
    \/ ViewCalendarGet
    \/ Export
    \/ DeleteEventById
    \/ Undo

SpecDelete == WebInit /\ [][NextDelete]_vars

\* The entries of the stored schedule with the given uid.
WithUid(s, event_id) ==
    SelectSeq(get(s, "scheduled_events", <<>>), LAMBDA ev : ev.uid = event_id)

\* A view_calendar POST with action undo on the session, then a view_calendar
\* GET on the session the first request leaves.
UndoThenView(s, calendar) ==
    LET before == Recompute(s, calendar)
        undone == IF before.raised # "none" THEN before ELSE UndoAction(before)
        left == IF undone.raised = "none" THEN undone.session ELSE s
    IN  [undo |-> undone, view |-> Recompute(left, calendar)]

\* C35: delete_event takes a snapshot, so it can be undone: after a
\* delete_event that removed an event by its uid, an undo and then a
\* view_calendar request both complete and the schedule shown holds the
\* deleted event again; delete_event removes the one event with that uid and
\* no other.
C35_DeleteEventUndone ==
    [][\A event_id \in EventIds :
          (Completed("delete_event", {event_id}) /\ WithUid(session, event_id) # <<>>) =>
              LET after == UndoThenView(session', user_calendar')
                  shown == after.view.scheduled_events
              IN  /\ Len(WithUid(session, event_id)) = 1
                  /\ Len(get(session', "scheduled_events", <<>>))
                        = Len(get(session, "scheduled_events", <<>>)) - 1
                  /\ WithUid(session', event_id) = <<>>
                  /\ after.undo.raised = "none"
                  /\ after.view.raised = "none"
                  /\ \E k \in 1..Len(shown) : shown[k] = WithUid(session, event_id)[1]]_vars

\* Events of one calendar, created and rescheduled with every pair of times.
CreateTimed == \E p \in TimePairs : CreateEvent(1, p[1], p[2])

NextTimes ==
    \/ CreateTimed
    \/ RescheduleAny

SpecTimes == StoreInit /\ [][NextTimes]_vars

\* Every stored event ends after it starts and its duration is the
\* difference of its times.
TimesConsistent ==
    \A id \in Ids : /\ db_events[id].end_time > db_events[id].start_time
                    /\ db_events[id].duration
                          = db_events[id].end_time - db_events[id].start_time

\* C36: after any sequence of Calendar.create_event and Event.reschedule
\* calls every stored event has end_time > start_time and duration =
\* end_time - start_time; a create_event or reschedule with end <= start
\* raises ValidationError and leaves the stored events unchanged.
C36_StoredTimesValid ==
    [][/\ TimesConsistent'
       /\ query_result'.raised = "ValidationError" => db_events' = db_events
       /\ \A p \in TimePairs :
             p[2] <= p[1] =>
                /\ CreateEvent(1, p[1], p[2]) =>
                      /\ query_result'.raised = "ValidationError"
                      /\ db_events' = db_events
                /\ \A id \in Ids :
                      RescheduleEvent(id, p[1], p[2]) =>
                         /\ query_result'.raised = "ValidationError"
                         /\ db_events' = db_events]_vars

\* Two events are stored; a reschedule of the first with its end before its
\* start has just raised and the stored events are as they were.
C36_Witness ==
    /\ Len(db_events) = 2
    /\ query_result.op = "reschedule" /\ query_result.raised = "ValidationError"
    /\ inst_events[1].end_time < inst_events[1].start_time
    /\ db_events[1].duration = 2
    /\ db_events[2].duration = 1

\* A placed record lies inside the horizon [window_start, window_end) of the
\* run.
InHorizon(r) ==
    /\ Val(window_start).t <= Val(r.start).t
    /\ Val(r.end).t <= Val(window_end).t

AllInHorizon ==
    pc # "call" =>
        \A n \in 1..Len(scheduled_events) :
            IsPlaced(scheduled_events[n]) => InHorizon(scheduled_events[n])

\* A recurrence occurrence placed in this step is on a date not after
\* recurring_until.
OccurrenceByUntil ==
    RecurrencePlaced =>
        LocalDateOf(Last(scheduled_events')) <= Val(CurEvent.recurring_until)

\* C37: every placed record returned by schedule_events, every recurrence
\* occurrence included, lies inside the horizon [window_start, window_end)
\* of the run, and no recurrence occurrence is placed on a date after the
\* recurring_until of its request.
C37_PlacedInsideHorizon ==
    [][AllInHorizon' /\ OccurrenceByUntil]_vars

\* C38: schedule_events terminates for every finite batch, busy set and
\* horizon, for any integer duration_minutes and split_minutes, zero and
\* negative ones included: here, every iteration of the loop of
\* split_into_chunks brings remaining closer to zero without passing it, so
\* that the loop ends after at most duration_minutes iterations.
C38_SplitLoopTerminates ==
    [][(pc = "split_loop" /\ pc' = "split_loop") =>
          /\ remaining' < remaining
          /\ remaining' >= 0]_vars

\* schedule_single_event alone, on candidate lists of its own.  The
\* candidates are free stretches between 14:00 and 14:00 + MaxInstant hours,
\* disjoint and in chronological order as _form_candidates leaves them
\* without ranks; the chunk is a whole number of hours, zero and negative
\* ones included; preferences are absent or rank the evening first.
CandidatePool ==
    { <<DT(At(0, 14 + p[1], 0), UTC), DT(At(0, 14 + p[2], 0), UTC)>>
        : p \in { q \in (0..MaxInstant) \X (0..MaxInstant) : q[1] < q[2] } }

CandidateLists ==
    { l \in SeqsUpTo(CandidatePool, MaxShuffle) :
        \A i \in 1..(Len(l) - 1) : l[i][2].t <= l[i + 1][1].t }

ChunkHours == (0 - 1)..MaxInstant

InitShuffle ==
    /\ free_result \in CandidateLists
    /\ \E h \in ChunkHours :
          /\ events_sorted = <<Simple(h * 60, "medium")>>
          /\ chunks = <<h * 60>>
    /\ preferences \in {None, Preferences(EveningFirst, None, None, None, None)}
    /\ randomize \in BOOLEAN
    /\ pc = "for_chunk"
    /\ ev_idx = 1
    /\ chunk_idx = 1
    /\ event_requests_raw = <<>>
    /\ imported_events = <<>>
    /\ window_start = None
    /\ window_end = None
    /\ server_tz = UTC
    /\ current_busy = <<>>
    /\ scheduled_events = <<>>
    /\ remaining = 0
    /\ start_time = None
    /\ end_time = None
    /\ occurrence_date = 0
    /\ r_start = None
    /\ err = "none"
    /\ busy = <<>>
    /\ StoreIdle
    /\ WebIdle

\* One call of schedule_single_event on the candidates, shuffled when
\* randomize is set.
ScheduleSingle ==
    /\ pc = "for_chunk"
    /\ \E order \in Shuffles(free_result, ChunkPreferences) :
          LET res == schedule_single_event(CurEvent, CurChunk, current_busy,
                         scheduled_events, order, ChunkPreferences)
          IN  /\ scheduled_events' = res.scheduled_events
              /\ current_busy' = res.current_busy
              /\ start_time' = res.start
              /\ end_time' = res.end
    /\ pc' = "placed"
    /\ UNCHANGED <<event_requests_raw, imported_events, window_start, window_end,
                   preferences, randomize, server_tz, events_sorted, ev_idx,
                   chunks, remaining, chunk_idx, occurrence_date, r_start, err,
                   busy, free_result, store_vars, web_vars>>

NextShuffle == ScheduleSingle

SpecShuffle == InitShuffle /\ [][NextShuffle]_vars

\* Some candidate is at least chunk_minutes long.
SomeCandidateFits ==
    \E i \in 1..Len(free_result) :
        free_result[i][2].t - free_result[i][1].t >= CurChunk * MINUTE

\* The interval lies inside one of the candidates.
InsideCandidate(start, end) ==
    \E i \in 1..Len(free_result) :
        /\ free_result[i][1].t <= start.t
        /\ start.t <= end.t
        /\ end.t <= free_result[i][2].t

PlacesWhenFits ==
    [][pc' = "placed" => (~IsNone(start_time') <=> SomeCandidateFits)]_vars

\* C39: shuffling the candidates changes only where a chunk is placed, never
\* whether: for a candidate list, in every order, a call of
\* schedule_single_event places the chunk if and only if some candidate is
\* at least chunk_minutes long, and the placement lies inside one of the
\* candidates.
C39_ShuffleKeepsPlacement ==
    [][pc' = "placed" =>
          /\ ~IsNone(start_time') <=> SomeCandidateFits
          /\ ~IsNone(start_time') =>
                /\ IsPlaced(Last(scheduled_events'))
                /\ Last(scheduled_events').start = start_time'
                /\ Last(scheduled_events').end = end_time'
                /\ InsideCandidate(Val(start_time'), Val(end_time'))]_vars

====
